---------------------------- MODULE Spec2Model ----------------------------
(***************************************************************************)
(* A model of the robot vacuum simulation: the environment and its dirt    *)
(* bitmap (environment.py), the agent (robot.py), the planners             *)
(* (pathplanning.py), the localisation filter (slam.py), the step-driven   *)
(* controller (simulator.py) and the command layer over the process-wide   *)
(* controller (graphql/server.py).                                         *)
(*                                                                         *)
(* Numbers.  The program computes with floats; the model uses integers:    *)
(*   - a distance is counted in thousandths of a cell (1000 = one cell,    *)
(*     sqrt(2) = 1414);                                                    *)
(*   - a battery level is counted in thousandths of a point (capacity      *)
(*     100.0 = 100000).                                                    *)
(* Rooms.  The program's layouts are 50x50 and larger; the model builds    *)
(* the same layouts on a RoomW x RoomH grid, and scales the battery used   *)
(* per cell by MoveCostScale so that one charge still lasts a few sweeps   *)
(* of the room.                                                            *)
(***************************************************************************)
EXTENDS Integers, Sequences, FiniteSets, TLC

(***************************************************************************)
(* Bounds of the model.                                                    *)
(***************************************************************************)
RoomW == 7           \* width of every layout (50 in PREDEFINED_ROOMS)
RoomH == 7           \* height of every layout
MoveCostScale == 20  \* battery per cell = 0.1 * MoveCostScale points
TickCap == 70        \* steps and sim_time are counted up to TickCap
HistCap == 8         \* path_history keeps its first HistCap entries
MaxCommands == 2     \* mutations a client issues besides step_simulation
MaxApiTicks == 10    \* step_simulation calls a client issues per controller
MaxLongTicks == 52   \* the same, for a client that only sends the agent home
MaxReplayTicks == 4   \* ticks of each of two controllers stepped side by side

\* Python's None, for a value of each type the program leaves optional
None == "None"            \* an optional string
NoPosition == << >>       \* an optional position or cell
NoPath == << << >> >>     \* an optional path (find_path's None)
NoSeed == -1              \* random_seed=None
NoSlam == [particles |-> << >>, estimated_pose |-> << >>]   \* slam=None

(***************************************************************************)
(* environment.py: CellType                                                *)
(***************************************************************************)
FREE == 0
OBSTACLE == 1
CLIFF == 2
DOCK == 3
DIRTY == 4

(***************************************************************************)
(* Arithmetic helpers.                                                     *)
(***************************************************************************)
Abs(n) == IF n < 0 THEN -n ELSE n
Min(a, b) == IF a < b THEN a ELSE b
Max(a, b) == IF a > b THEN a ELSE b

\* A loop of the program that runs at most n passes and leaves early (break,
\* return) once its state says done: the state after the loop.  The passes are
\* run in two halves so that the evaluation does not nest n deep.
RECURSIVE Loop(_, _, _)
Loop(Body(_), st, n) ==
    IF n = 0 \/ st.done THEN st
    ELSE IF n = 1 THEN Body(st)
    ELSE LET half == Loop(Body, st, n \div 2)
         IN  IF half.done THEN half ELSE Loop(Body, half, n - n \div 2)

RECURSIVE ISqrtIn(_, _, _)
ISqrtIn(n, lo, hi) ==
    \* the largest r in lo..hi with r*r <= n (lo*lo <= n < (hi+1)*(hi+1))
    IF lo >= hi THEN lo
    ELSE LET mid == (lo + hi + 1) \div 2
         IN  IF mid * mid <= n THEN ISqrtIn(n, mid, hi) ELSE ISqrtIn(n, lo, mid - 1)

ISqrt(n) == ISqrtIn(n, 0, 46340)

\* np.sqrt(dx**2 + dy**2), for dx and dy in thousandths of a cell
Distance(dx, dy) == ISqrt(dx * dx + dy * dy)

(***************************************************************************)
(* The process-wide random generators (numpy.random and random).  Each is  *)
(* a linear congruential generator: what matters to the program's          *)
(* behaviour is that a draw depends on the generator's state alone and     *)
(* advances it, and that seeding sets the state.                           *)
(***************************************************************************)
RngMod == 65536

rng_seed(seed) == (seed * 7919 + 17) % RngMod
rng_advance(s) == (s * 25173 + 13849) % RngMod
rng_bits(s) == rng_advance(s) \div 64

\* np.random.randint(low, high): an integer of low..high-1
np_randint(s, low, high) ==
    [val |-> low + (rng_bits(s) % (high - low)), rng |-> rng_advance(s)]

(***************************************************************************)
(* environment.py: EnvironmentGenerator                                    *)
(***************************************************************************)
Cells(w, h) == [i \in 1..(w * h) |-> <<(i - 1) % w, (i - 1) \div w>>]

InGrid(x, y, w, h) == 0 <= x /\ x < w /\ 0 <= y /\ y < h

create_empty_room(width, height) ==
    [y \in 0..(height - 1) |-> [x \in 0..(width - 1) |->
        IF y = 0 \/ y = height - 1 \/ x = 0 \/ x = width - 1
        THEN OBSTACLE ELSE FREE]]

\* The furniture of the 50x50 room (5 blocks of 2..5 cells a side, 5 cells off
\* the border) scaled to the model's room: one block of 1..2 cells a side,
\* one cell off the border.
FurnitureCount == 1
FurnitureMinSize == 1
FurnitureMaxSize == 2
FurnitureMargin == 1

RECURSIVE place_furniture(_, _, _, _, _)
place_furniture(env, rng, width, height, n) ==
    LET Placed(fw, fh, px, py) ==
            [y \in 0..(height - 1) |-> [x \in 0..(width - 1) |->
                IF py <= y /\ y < py + fh /\ px <= x /\ x < px + fw
                THEN OBSTACLE ELSE env[y][x]]]
        AtY(fw, fh, px, y) ==
            place_furniture(Placed(fw, fh, px, y.val), y.rng, width, height, n - 1)
        AtX(fw, fh, x) ==
            AtY(fw, fh, x.val,
                np_randint(x.rng, FurnitureMargin, height - fh - FurnitureMargin))
        High(fw, furn_height) ==
            AtX(fw, furn_height.val,
                np_randint(furn_height.rng, FurnitureMargin,
                           width - fw - FurnitureMargin))
        Wide(furn_width) ==
            High(furn_width.val,
                 np_randint(furn_width.rng, FurnitureMinSize, FurnitureMaxSize + 1))
    IN  IF n = 0 THEN [env |-> env, rng |-> rng]
        ELSE Wide(np_randint(rng, FurnitureMinSize, FurnitureMaxSize + 1))

create_room_with_furniture(rng, width, height, num_obstacles) ==
    place_furniture(create_empty_room(width, height), rng, width, height,
                    num_obstacles)

\* The cliff bands of the 50x50 room (5 rows thick, 10 cells off the side
\* walls) scaled to the model's room: 1 row thick, 2 cells off the side walls.
CliffBandRows == 1
CliffBandMargin == 2

create_stairs_test(width, height) ==
    LET env == create_empty_room(width, height)
        InBand(y, top) == top <= y /\ y < top + CliffBandRows
    IN  [y \in 0..(height - 1) |-> [x \in 0..(width - 1) |->
          IF /\ InBand(y, height \div 3) \/ InBand(y, (2 * height) \div 3)
             /\ CliffBandMargin <= x /\ x < width - CliffBandMargin
          THEN CLIFF ELSE env[y][x]]]

\* np.argwhere(env == value): the matching cells in row-major order
argwhere(env, width, height, value) ==
    LET Match(c) == env[c[2]][c[1]] = value
    IN  SelectSeq(Cells(width, height), Match)

add_dock(env, rng, width, height) ==
    LET NearWall(c) ==
            /\ 2 <= c[2] /\ c[2] < height - 2 /\ 2 <= c[1] /\ c[1] < width - 2
            /\ env[c[2]][c[1]] = FREE
            /\ \/ env[c[2] - 1][c[1]] = OBSTACLE
               \/ env[c[2] + 1][c[1]] = OBSTACLE
               \/ env[c[2]][c[1] - 1] = OBSTACLE
               \/ env[c[2]][c[1] + 1] = OBSTACLE
        Docked(pos, rng_after) ==
            [env |-> [env EXCEPT ![pos[2]][pos[1]] = DOCK], rng |-> rng_after]
        Drawn(candidates, r) == Docked(candidates[r.val + 1], r.rng)
        Among(candidates) == Drawn(candidates, np_randint(rng, 0, Len(candidates)))
        \* no cell next to a wall: any free cell, else the centre
        Fallback(free_cells) ==
            IF Len(free_cells) > 0 THEN Among(free_cells)
            ELSE Docked(<<width \div 2, height \div 2>>, rng)
        \* the loops run y outermost, x innermost: row-major order
        Pick(valid_positions) ==
            IF Len(valid_positions) > 0 THEN Among(valid_positions)
            ELSE Fallback(argwhere(env, width, height, FREE))
    IN  Pick(SelectSeq(Cells(width, height), NearWall))

(***************************************************************************)
(* environment.py: Environment                                             *)
(***************************************************************************)
\* _initialize_dirt that takes every cell but the obstacles for dirty
_initialize_dirt_non_obstacle(env, width, height) ==
    [y \in 0..(height - 1) |-> [x \in 0..(width - 1) |-> env[y][x] # OBSTACLE]]

_initialize_dirt(env, width, height) ==
    [y \in 0..(height - 1) |-> [x \in 0..(width - 1) |-> env[y][x] = FREE]]

Environment(env_array, width, height) ==
    LET At(dock_positions) ==
            [env |-> env_array,
             original_env |-> env_array,
             width |-> width,
             height |-> height,
             dock_position |-> IF Len(dock_positions) > 0
                               THEN dock_positions[1] ELSE NoPosition,
             dirt_map |-> _initialize_dirt(env_array, width, height),
             sim_time |-> 0]
    IN  At(argwhere(env_array, width, height, DOCK))

clean_cell(e, x, y) ==
    IF InGrid(x, y, e.width, e.height)
    THEN [e EXCEPT !.dirt_map[y][x] = FALSE]
    ELSE e

\* the number of cells of a boolean or cell-type grid that satisfy a test
CountCells(e, Test(_, _)) ==
    Cardinality({c \in (0..(e.width - 1)) \X (0..(e.height - 1)) : Test(c[1], c[2])})

total_cleanable(e) ==
    LET IsFree(x, y) == e.original_env[y][x] = FREE
    IN  CountCells(e, IsFree)

dirty_count(e) ==
    LET IsDirty(x, y) == e.dirt_map[y][x]
    IN  CountCells(e, IsDirty)

\* get_cleaning_percentage() >= pct, without the division
cleaning_percentage_at_least(e, pct) ==
    LET Of(total, dirty) ==
            IF total = 0 THEN 100 >= pct
            ELSE (total - dirty) * 100 >= pct * total
    IN  Of(total_cleanable(e), dirty_count(e))

\* get_cleaning_percentage(): (cleaned / total_cleanable) * 100.0, kept as
\* the fraction num / den
get_cleaning_percentage(e) ==
    LET Of(total, dirty) ==
            IF total = 0 THEN [num |-> 100, den |-> 1]
            ELSE [num |-> (total - dirty) * 100, den |-> total]
    IN  Of(total_cleanable(e), dirty_count(e))

\* reset() that leaves the clock running
reset_keeps_time(e) ==
    [e EXCEPT !.env = e.original_env,
              !.dirt_map = _initialize_dirt(e.original_env, e.width, e.height)]

reset(e) ==
    [e EXCEPT !.env = e.original_env,
              !.dirt_map = _initialize_dirt(e.original_env, e.width, e.height),
              !.sim_time = 0]

environment_step(e) ==
    [e EXCEPT !.sim_time = IF @ < TickCap THEN @ + 1 ELSE @]

env_is_valid_position(e, x, y) ==
    /\ InGrid(x, y, e.width, e.height)
    /\ e.env[y][x] \in {FREE, DOCK, DIRTY}

\* PREDEFINED_ROOMS; room_layout builds the empty, furnished and stairs rooms
PREDEFINED_ROOMS ==
    {"empty", "furnished", "multi_room", "corridor", "obstacle_course",
     "stairs_test"}

room_layout(room_type, rng) ==
    CASE room_type = "empty" ->
            [env |-> create_empty_room(RoomW, RoomH), rng |-> rng]
      [] room_type = "furnished" ->
            create_room_with_furniture(rng, RoomW, RoomH, FurnitureCount)
      [] room_type = "stairs_test" ->
            [env |-> create_stairs_test(RoomW, RoomH), rng |-> rng]

\* create_environment: [ok |-> FALSE] stands for the ValueError it raises
create_environment(room_type, rng) ==
    LET Docked(docked) ==
            [ok |-> TRUE,
             environment |-> Environment(docked.env, RoomW, RoomH),
             rng |-> docked.rng]
        Laid(made) == Docked(add_dock(made.env, made.rng, RoomW, RoomH))
    IN  IF room_type \notin PREDEFINED_ROOMS
        THEN [ok |-> FALSE, rng |-> rng]
        ELSE Laid(room_layout(room_type, rng))

(***************************************************************************)
(* robot.py: RobotVacuum.  Positions are in thousandths of a cell.         *)
(***************************************************************************)
RobotStates ==
    {"idle", "cleaning", "returning_to_dock", "charging", "error", "stuck"}

CleaningModes ==
    {"auto", "spot", "edge", "spiral", "zigzag", "wall_follow", "random"}

BatteryCapacity == 100000   \* battery_capacity=100.0
LowBattery == 20000         \* battery_level < 20.0
ReserveBattery == 10000     \* estimated_battery_needed + 10
ChargeRate == 10000         \* charge_rate = 10.0
SensorRange == 2            \* sensor_range = 2.0

\* int(v) of a float: truncation toward zero
Trunc(v) == IF v >= 0 THEN v \div 1000 ELSE -((-v) \div 1000)

to_grid(position) == <<Trunc(position[1]), Trunc(position[2])>>

Position(x, y) == <<x * 1000, y * 1000>>

distance_to(p, q) == Distance(p[1] - q[1], p[2] - q[2])

Infinity == 2147483647      \* float('inf')

SensorData ==
    [obstacle |-> [d \in {"front", "back", "left", "right"} |-> FALSE],
     distance |-> [d \in {"front", "back", "left", "right"} |-> Infinity],
     cliff_detected |-> FALSE,
     bumper_triggered |-> FALSE]

RobotVacuum(position, battery_capacity) ==
    [position |-> position,
     battery_capacity |-> battery_capacity,
     battery_level |-> battery_capacity,
     state |-> "idle",
     mode |-> "auto",
     dock_position |-> NoPosition,
     sensor_data |-> SensorData,
     stats |-> [total_distance |-> 0, area_cleaned |-> 0, battery_cycles |-> 0,
                errors_encountered |-> 0, stuck_count |-> 0],
     cleaned_cells |-> {},
     visited_cells |-> {},
     path_history |-> <<position>>]

RECURSIVE _calculate_distance_to_obstacle(_, _, _, _, _, _, _, _)
_calculate_distance_to_obstacle(env, width, height, x, y, dx, dy, distance) ==
    IF distance >= SensorRange THEN SensorRange
    ELSE LET nx == x + dx
             ny == y + dy
         IN  IF ~InGrid(nx, ny, width, height) THEN distance + 1
             ELSE IF env[ny][nx] \in {OBSTACLE, CLIFF} THEN distance + 1
             ELSE _calculate_distance_to_obstacle(env, width, height, nx, ny,
                                                  dx, dy, distance + 1)

SensorDirections ==
    [front |-> <<0, -1>>, back |-> <<0, 1>>, left |-> <<-1, 0>>, right |-> <<1, 0>>]

\* update_sensors with the cliff sensor looking ahead only
update_sensors_front_only(r, env, width, height) ==
    LET g == to_grid(r.position)
    IN  [r EXCEPT !.sensor_data =
          [SensorData EXCEPT
             !.cliff_detected = /\ InGrid(g[1], g[2] - 1, width, height)
                                /\ env[g[2] - 1][g[1]] = CLIFF]]

update_sensors(r, env, width, height) ==
    LET g == to_grid(r.position)
        Cell(d) == <<g[1] + SensorDirections[d][1], g[2] + SensorDirections[d][2]>>
        Inside(d) == InGrid(Cell(d)[1], Cell(d)[2], width, height)
        Value(d) == env[Cell(d)[2]][Cell(d)[1]]
        Dirs == {"front", "back", "left", "right"}
    IN  [r EXCEPT !.sensor_data =
          [obstacle |-> [d \in Dirs |-> ~Inside(d) \/ Value(d) = OBSTACLE],
           distance |-> [d \in Dirs |->
               IF ~Inside(d) THEN 0
               ELSE IF Value(d) = OBSTACLE THEN 1
               ELSE IF Value(d) = CLIFF THEN Infinity
               ELSE _calculate_distance_to_obstacle(env, width, height,
                        g[1], g[2], SensorDirections[d][1],
                        SensorDirections[d][2], 0)],
           cliff_detected |-> \E d \in Dirs : Inside(d) /\ Value(d) = CLIFF,
           bumper_triggered |-> FALSE]]

\* battery_consumption = distance * 0.1, scaled by MoveCostScale
battery_consumption(distance) == (distance * MoveCostScale) \div 10

\* move that lets the battery level fall below zero
move_unclamped(r, dx, dy) ==
    IF r.battery_level <= 0
    THEN [robot |-> [r EXCEPT !.state = "error"], ok |-> FALSE]
    ELSE [robot |->
            [r EXCEPT
               !.position = <<r.position[1] + dx, r.position[2] + dy>>,
               !.path_history = Append(@, <<r.position[1] + dx, r.position[2] + dy>>),
               !.stats.total_distance = @ + Distance(dx, dy),
               !.battery_level = @ - battery_consumption(Distance(dx, dy))],
          ok |-> TRUE]

\* move that counts the distance of a move it rejects
move_counts_rejected(r, dx, dy) ==
    IF r.battery_level <= 0
    THEN [robot |-> [r EXCEPT !.state = "error",
                              !.stats.total_distance = @ + Distance(dx, dy)],
          ok |-> FALSE]
    ELSE [robot |->
            [r EXCEPT
               !.position = <<r.position[1] + dx, r.position[2] + dy>>,
               !.path_history = Append(@, <<r.position[1] + dx, r.position[2] + dy>>),
               !.stats.total_distance = @ + Distance(dx, dy),
               !.battery_level = Max(0, @ - battery_consumption(Distance(dx, dy)))],
          ok |-> TRUE]

\* move(dx, dy), with dx and dy in thousandths of a cell
move(r, dx, dy) ==
    IF r.battery_level <= 0
    THEN [robot |-> [r EXCEPT !.state = "error"], ok |-> FALSE]
    ELSE LET new_position == <<r.position[1] + dx, r.position[2] + dy>>
             distance == Distance(dx, dy)
             grid_pos == to_grid(new_position)
             cleaned == r.cleaned_cells \cup {grid_pos}
         IN  [robot |->
                [r EXCEPT
                   !.position = new_position,
                   !.path_history = IF Len(@) < HistCap
                                    THEN Append(@, new_position) ELSE @,
                   !.stats.total_distance = @ + distance,
                   !.battery_level = Max(0, @ - battery_consumption(distance)),
                   !.visited_cells = @ \cup {grid_pos},
                   !.cleaned_cells = cleaned,
                   !.stats.area_cleaned = Cardinality(cleaned)],
              ok |-> TRUE]

should_return_to_dock(r) ==
    \/ r.battery_level < LowBattery
    \/ /\ r.dock_position # NoPosition
       \* battery_level < distance_to_dock * 0.1 * 1.5 + 10
       /\ 20 * r.battery_level <
            3 * MoveCostScale * distance_to(r.position, r.dock_position)
              + 20 * ReserveBattery

charge(r, charge_rate) ==
    LET level == Min(r.battery_capacity, r.battery_level + charge_rate)
        full == level >= r.battery_capacity
    IN  [robot |-> [r EXCEPT !.state = "charging",
                             !.battery_level = level,
                             !.stats.battery_cycles = IF full THEN @ + 1 ELSE @],
         full |-> full]

set_dock_position(r, position) == [r EXCEPT !.dock_position = position]

(***************************************************************************)
(* pathplanning.py: PathPlanner                                            *)
(***************************************************************************)
is_valid_position(env, width, height, x, y) ==
    /\ InGrid(x, y, width, height)
    /\ env[y][x] \in {FREE, DOCK}

CardinalSteps == << <<0, 1>>, <<1, 0>>, <<0, -1>>, <<-1, 0>> >>
\* diagonal steps to the right only
DiagonalStepsRightward == << <<1, 1>>, <<1, -1>> >>

DiagonalSteps == << <<1, 1>>, <<1, -1>>, <<-1, 1>>, <<-1, -1>> >>

\* get_neighbors that lets a diagonal step cut a corner
get_neighbors_cutting(env, width, height, x, y, diagonal) ==
    LET Valid(d) == is_valid_position(env, width, height, x + d[1], y + d[2])
        Targets(steps) == [i \in 1..Len(steps) |-> <<x + steps[i][1], y + steps[i][2]>>]
    IN  Targets(SelectSeq(CardinalSteps, Valid)
                  \o (IF diagonal THEN SelectSeq(DiagonalSteps, Valid)
                      ELSE << >>))

get_neighbors(env, width, height, x, y, diagonal) ==
    LET Valid(px, py) == is_valid_position(env, width, height, px, py)
        CardinalOk(d) == Valid(x + d[1], y + d[2])
        DiagonalOk(d) == /\ Valid(x + d[1], y + d[2])
                         /\ Valid(x + d[1], y)
                         /\ Valid(x, y + d[2])
        Targets(steps) == [i \in 1..Len(steps) |-> <<x + steps[i][1], y + steps[i][2]>>]
    IN  Targets(SelectSeq(CardinalSteps, CardinalOk)
                  \o (IF diagonal THEN SelectSeq(DiagonalSteps, DiagonalOk)
                      ELSE << >>))

(***************************************************************************)
(* heapq, as AStarPlanner uses it: the heap holds references to nodes,     *)
(* named here by their position; nodes compare by the f_cost they have at  *)
(* the time of the comparison (PathPlanNode.__lt__).                       *)
(***************************************************************************)
f_cost(nodes, p) == nodes[p].g_cost + nodes[p].h_cost

node_lt(nodes, a, b) == f_cost(nodes, a) < f_cost(nodes, b)

\* heap positions are 0-based as in heapq: position i is heap[i + 1]
RECURSIVE _siftdown(_, _, _, _, _)
_siftdown(heap, nodes, newitem, startpos, pos) ==
    IF pos > startpos /\ node_lt(nodes, newitem, heap[((pos - 1) \div 2) + 1])
    THEN _siftdown([heap EXCEPT ![pos + 1] = heap[((pos - 1) \div 2) + 1]],
                   nodes, newitem, startpos, (pos - 1) \div 2)
    ELSE [heap EXCEPT ![pos + 1] = newitem]

RECURSIVE _siftup(_, _, _, _)
_siftup(heap, nodes, newitem, pos) ==
    LET endpos == Len(heap)
        left == 2 * pos + 1
        right == left + 1
        childpos == IF right < endpos /\ ~node_lt(nodes, heap[left + 1], heap[right + 1])
                    THEN right ELSE left
    IN  IF left < endpos
        THEN _siftup([heap EXCEPT ![pos + 1] = heap[childpos + 1]], nodes,
                     newitem, childpos)
        ELSE _siftdown(heap, nodes, newitem, 0, pos)

heappush(heap, nodes, item) ==
    _siftdown(Append(heap, item), nodes, item, 0, Len(heap))

\* heappop of a non-empty heap: the item returned and the heap left
heappop(heap, nodes) ==
    LET lastelt == heap[Len(heap)]
        rest == SubSeq(heap, 1, Len(heap) - 1)
    IN  IF Len(rest) > 0
        THEN [item |-> rest[1], heap |-> _siftup(rest, nodes, lastelt, 0)]
        ELSE [item |-> lastelt, heap |-> rest]

(***************************************************************************)
(* pathplanning.py: AStarPlanner.  Costs are in thousandths.               *)
(***************************************************************************)
heuristic(pos1, pos2) == (Abs(pos1[1] - pos2[1]) + Abs(pos1[2] - pos2[2])) * 1000

move_cost(from, to) ==
    IF to[1] = from[1] \/ to[2] = from[2] THEN 1000 ELSE 1414

RECURSIVE reconstruct_path(_, _, _)
reconstruct_path(nodes, current, path) ==
    IF current = NoPosition THEN path
    ELSE reconstruct_path(nodes, nodes[current].parent, <<current>> \o path)

\* the loop over the neighbours of the node just popped
RECURSIVE expand_neighbors(_, _, _, _, _, _)
expand_neighbors(st, current, neighbors, i, goal, closed_set) ==
    IF i > Len(neighbors) THEN st
    ELSE LET neighbor_pos == neighbors[i]
             g_cost == st.nodes[current].g_cost + move_cost(current, neighbor_pos)
             h_cost == heuristic(neighbor_pos, goal)
             next ==
               IF neighbor_pos \in closed_set THEN st
               ELSE IF neighbor_pos \in DOMAIN st.nodes
               THEN IF g_cost < st.nodes[neighbor_pos].g_cost
                    THEN LET updated == [st.nodes EXCEPT
                                           ![neighbor_pos].g_cost = g_cost,
                                           ![neighbor_pos].parent = current]
                         IN  [nodes |-> updated,
                              open_set |-> heappush(st.open_set, updated, neighbor_pos)]
                    ELSE st
               ELSE LET added == (neighbor_pos :> [g_cost |-> g_cost,
                                                   h_cost |-> h_cost,
                                                   parent |-> current]) @@ st.nodes
                    IN  [nodes |-> added,
                         open_set |-> heappush(st.open_set, added, neighbor_pos)]
         IN  expand_neighbors(next, current, neighbors, i + 1, goal, closed_set)

\* one pass of `while open_set`: pop the best node, stop at the goal, else
\* close it and expand its neighbours
astar_pass(env, width, height, st, goal, diagonal) ==
    LET Expanded(current, expanded) ==
            [nodes |-> expanded.nodes, open_set |-> expanded.open_set,
             closed_set |-> st.closed_set \cup {current}, path |-> NoPath,
             done |-> FALSE]
        Current(current, heap) ==
            IF current = goal
            THEN [st EXCEPT !.path = reconstruct_path(st.nodes, current, << >>),
                            !.done = TRUE]
            ELSE Expanded(current,
                    expand_neighbors(
                        [nodes |-> st.nodes, open_set |-> heap], current,
                        get_neighbors(env, width, height, current[1],
                                      current[2], diagonal),
                        1, goal, st.closed_set \cup {current}))
        Popped(popped) == Current(popped.item, popped.heap)
    IN  IF Len(st.open_set) = 0 THEN [st EXCEPT !.done = TRUE]
        ELSE Popped(heappop(st.open_set, st.nodes))

\* every pass closes a node or ends the search, and a node is pushed when it
\* is created or improved: 16 passes per cell are never all used
astar_run(env, width, height, start, goal, diagonal) ==
    LET Pass(st) == astar_pass(env, width, height, st, goal, diagonal)
    IN  Loop(Pass,
             [nodes |-> (start :> [g_cost |-> 0,
                                   h_cost |-> heuristic(start, goal),
                                   parent |-> NoPosition]),
              open_set |-> <<start>>, closed_set |-> {}, path |-> NoPath,
              done |-> FALSE],
             16 * width * height)

astar_search(env, width, height, start, goal, diagonal) ==
    astar_run(env, width, height, start, goal, diagonal).path

find_path(env, width, height, start, goal, diagonal) ==
    IF \/ ~is_valid_position(env, width, height, start[1], start[2])
       \/ ~is_valid_position(env, width, height, goal[1], goal[2])
    THEN NoPath
    ELSE astar_search(env, width, height, start, goal, diagonal)

(***************************************************************************)
(* pathplanning.py: the coverage planners                                  *)
(***************************************************************************)
spiral_pass(env, width, height, start, max_radius, st) ==
    LET x == st.x + st.dx
        y == st.y + st.dy
        turn == st.steps_taken + 1 = st.steps_in_direction
        changes == IF turn THEN st.direction_changes + 1
                   ELSE st.direction_changes
    IN  [x |-> x, y |-> y,
         dx |-> IF turn THEN -st.dy ELSE st.dx,
         dy |-> IF turn THEN st.dx ELSE st.dy,
         steps_in_direction |-> IF turn /\ changes % 2 = 0
                                THEN st.steps_in_direction + 1
                                ELSE st.steps_in_direction,
         steps_taken |-> IF turn THEN 0 ELSE st.steps_taken + 1,
         direction_changes |-> changes,
         path |-> IF is_valid_position(env, width, height, x, y)
                  THEN Append(st.path, <<x, y>>) ELSE st.path,
         done |-> /\ Abs(x - start[1]) > max_radius
                  /\ Abs(y - start[2]) > max_radius]

generate_spiral_path(env, width, height, start) ==
    LET max_radius == Max(width, height)
        Pass(st) == spiral_pass(env, width, height, start, max_radius, st)
    IN  Loop(Pass,
             [x |-> start[1], y |-> start[2], dx |-> 1, dy |-> 0,
              steps_in_direction |-> 1, steps_taken |-> 0,
              direction_changes |-> 0, path |-> <<start>>, done |-> FALSE],
             max_radius * max_radius).path

\* a sweep that crosses every row (column) in the same direction
generate_zigzag_path_one_way(env, width, height, start, horizontal) ==
    LET Valid(c) == is_valid_position(env, width, height, c[1], c[2])
        rows == [i \in 1..(width * height) |->
                   <<(i - 1) % width, (i - 1) \div width>>]
        columns == [i \in 1..(width * height) |->
                      <<(i - 1) \div height, (i - 1) % height>>]
    IN  SelectSeq(IF horizontal THEN rows ELSE columns, Valid)

generate_zigzag_path(env, width, height, start, horizontal) ==
    LET Valid(c) == is_valid_position(env, width, height, c[1], c[2])
        rows == [i \in 1..(width * height) |->
                   LET y == (i - 1) \div width
                       k == (i - 1) % width
                   IN  <<IF y % 2 = 0 THEN k ELSE width - 1 - k, y>>]
        columns == [i \in 1..(width * height) |->
                      LET x == (i - 1) \div height
                          k == (i - 1) % height
                      IN  <<x, IF x % 2 = 0 THEN k ELSE height - 1 - k>>]
    IN  SelectSeq(IF horizontal THEN rows ELSE columns, Valid)

WallFollowMaxSteps == 1000
WallDirections == << <<0, -1>>, <<1, 0>>, <<0, 1>>, <<-1, 0>> >>

follow_wall_pass(env, width, height, start, st) ==
    LET right_direction == (st.direction_idx + 1) % 4
        right == <<st.x + WallDirections[right_direction + 1][1],
                   st.y + WallDirections[right_direction + 1][2]>>
        forward == <<st.x + WallDirections[st.direction_idx + 1][1],
                     st.y + WallDirections[st.direction_idx + 1][2]>>
        Valid(c) == is_valid_position(env, width, height, c[1], c[2])
        Moved(c, dir) ==
            LET path == IF c \in st.visited THEN st.path ELSE Append(st.path, c)
            IN  [x |-> c[1], y |-> c[2], direction_idx |-> dir,
                 path |-> path, visited |-> st.visited \cup {c},
                 done |-> c = start /\ Len(path) > 10]
    IN  IF Valid(right) THEN Moved(right, right_direction)
        ELSE IF Valid(forward) THEN Moved(forward, st.direction_idx)
        ELSE [st EXCEPT !.direction_idx = (st.direction_idx + 3) % 4]

follow_wall(env, width, height, start) ==
    LET Pass(st) == follow_wall_pass(env, width, height, start, st)
    IN  Loop(Pass,
             [x |-> start[1], y |-> start[2], direction_idx |-> 0,
              path |-> <<start>>, visited |-> {start}, done |-> FALSE],
             WallFollowMaxSteps).path

\* random.random() < 0.7 and random.choice(seq), on the random module's state
py_random_below_70(s) == rng_bits(s) % 10 < 7
py_choice(s, seq) == seq[(rng_bits(s) % Len(seq)) + 1]

RandomWalkMaxSteps == 10000
TargetCoveragePct == 95

random_walk_pass(env, width, height, total_free_cells, st) ==
    LET Stepped(next_pos, covered, rng) ==
            [x |-> next_pos[1], y |-> next_pos[2], covered |-> covered,
             path |-> Append(st.path, next_pos), rng |-> rng,
             done |-> Cardinality(covered) * 100
                        >= TargetCoveragePct * total_free_cells]
        Chosen(next_pos, rng) ==
            Stepped(next_pos, st.covered \cup {next_pos}, rng)
        NotCovered(c) == c \notin st.covered
        \* random.random() is drawn only when there is an uncovered neighbour
        Choose(neighbors, uncovered, drawn) ==
            IF Len(uncovered) = 0
            THEN Chosen(py_choice(st.rng, neighbors), drawn)
            ELSE IF py_random_below_70(st.rng)
            THEN Chosen(py_choice(drawn, uncovered), rng_advance(drawn))
            ELSE Chosen(py_choice(drawn, neighbors), rng_advance(drawn))
        Around(neighbors) ==
            IF Len(neighbors) = 0 THEN [st EXCEPT !.done = TRUE]
            ELSE Choose(neighbors, SelectSeq(neighbors, NotCovered),
                        rng_advance(st.rng))
    IN  Around(get_neighbors(env, width, height, st.x, st.y, FALSE))

\* generate_random_path(start, target_coverage=0.95): the path and the state
\* the random module is left in
generate_random_path(env, width, height, rng, start) ==
    LET Pass(st) ==
            random_walk_pass(env, width, height,
                Len(argwhere(env, width, height, FREE))
                  + Len(argwhere(env, width, height, DOCK)), st)
        Walked(walked) == [path |-> walked.path, rng |-> walked.rng]
    IN  Walked(Loop(Pass,
                    [x |-> start[1], y |-> start[2], covered |-> {start},
                     path |-> <<start>>, rng |-> rng, done |-> FALSE],
                    RandomWalkMaxSteps))

remove_redundant_moves(path) ==
    LET Pass(st) ==
            [i |-> st.i + 1,
             optimized |-> IF path[st.i] # st.optimized[Len(st.optimized)]
                           THEN Append(st.optimized, path[st.i])
                           ELSE st.optimized,
             done |-> FALSE]
    IN  IF Len(path) <= 2 THEN path
        ELSE Loop(Pass, [i |-> 2, optimized |-> <<path[1]>>, done |-> FALSE],
                  Len(path) - 1).optimized

(***************************************************************************)
(* slam.py: OccupancyGrid.  Log-odds are in thousandths.                   *)
(***************************************************************************)
LogOddsOccupied == 847     \* np.log(0.7 / 0.3)
LogOddsFree == -847        \* np.log(0.3 / 0.7)
LogOddsMax == 3500
LogOddsMin == -3500

OccupancyGrid(width, height) ==
    [width |-> width,
     height |-> height,
     grid |-> [y \in 0..(height - 1) |-> [x \in 0..(width - 1) |-> 0]],
     observed |-> [y \in 0..(height - 1) |-> [x \in 0..(width - 1) |-> FALSE]]]

\* update_cell that does not clamp the log-odds
update_cell_unclamped(g, x, y, is_occupied) ==
    IF ~InGrid(x, y, g.width, g.height) THEN g
    ELSE [g EXCEPT
            !.grid[y][x] = IF is_occupied THEN @ + LogOddsOccupied
                           ELSE @ + LogOddsFree,
            !.observed[y][x] = TRUE]

update_cell(g, x, y, is_occupied) ==
    IF ~InGrid(x, y, g.width, g.height) THEN g
    ELSE [g EXCEPT
            !.grid[y][x] = IF is_occupied
                           THEN Min(@ + LogOddsOccupied, LogOddsMax)
                           ELSE Max(@ + LogOddsFree, LogOddsMin),
            !.observed[y][x] = TRUE]

\* the loop of bresenham_line, from the cell (x, y) with error err
RECURSIVE bresenham_from(_, _, _, _, _, _, _, _, _, _)
bresenham_from(cells, x, y, err, x1, y1, dx, dy, sx, sy) ==
    IF x = x1 /\ y = y1 THEN Append(cells, <<x, y>>)
    ELSE LET e2 == 2 * err
             step_x == e2 > -dy
             err_x == IF step_x THEN err - dy ELSE err
             step_y == e2 < dx
         IN  bresenham_from(Append(cells, <<x, y>>),
                            IF step_x THEN x + sx ELSE x,
                            IF step_y THEN y + sy ELSE y,
                            IF step_y THEN err_x + dx ELSE err_x,
                            x1, y1, dx, dy, sx, sy)

bresenham_line(x0, y0, x1, y1) ==
    bresenham_from(<< >>, x0, y0, Abs(x1 - x0) - Abs(y1 - y0), x1, y1,
                   Abs(x1 - x0), Abs(y1 - y0),
                   IF x0 < x1 THEN 1 ELSE -1, IF y0 < y1 THEN 1 ELSE -1)

\* for x, y in ray[:-1]: update_cell(x, y, is_occupied=False)
RECURSIVE mark_free(_, _, _)
mark_free(g, ray, i) ==
    IF i >= Len(ray) THEN g
    ELSE mark_free(update_cell(g, ray[i][1], ray[i][2], FALSE), ray, i + 1)

RECURSIVE update_from_scan(_, _, _, _)
update_from_scan(g, robot_x, robot_y, scan_points) ==
    IF scan_points = << >> THEN g
    ELSE LET point == Head(scan_points)
             ray == bresenham_line(robot_x, robot_y, point[1], point[2])
         IN  update_from_scan(
                 update_cell(mark_free(g, ray, 1), point[1], point[2], TRUE),
                 robot_x, robot_y, Tail(scan_points))

(***************************************************************************)
(* slam.py: ParticleFilter and SLAM.  Particle coordinates are in          *)
(* thousandths of a cell, angles in thousandths of a radian, weights in    *)
(* millionths.  A Gaussian draw of deviation sigma is one of -sigma, 0,    *)
(* sigma.  ParticleFilter.update scores every particle on the same cells   *)
(* (the observation is not transformed through the particle's pose), so    *)
(* the normalised weights come out equal; the occupancy grid, which feeds  *)
(* only those scores, is not part of the controller's state here.  The     *)
(* circular mean of the angles is taken as their weighted mean.            *)
(***************************************************************************)
NumParticles == 2    \* num_particles=100, scaled to the model
TwoPi == 6283
UnitWeight == 1000000

np_uniform(s, low, high) ==
    [val |-> low + (rng_bits(s) * (high - low)) \div 1024, rng |-> rng_advance(s)]

np_normal(s, sigma) ==
    [val |-> ((rng_bits(s) % 3) - 1) * sigma, rng |-> rng_advance(s)]

Clip(v, low, high) == Max(low, Min(v, high))

RECURSIVE init_particles(_, _, _, _, _)
init_particles(rng, width, height, n, particles) ==
    LET Turned(x, y, theta) ==
            init_particles(theta.rng, width, height, n - 1,
                Append(particles, [x |-> x, y |-> y, theta |-> theta.val,
                                   weight |-> UnitWeight \div NumParticles]))
        AtY(x, y) == Turned(x, y.val, np_uniform(y.rng, 0, TwoPi))
        AtX(x) == AtY(x.val, np_uniform(x.rng, 0, height * 1000))
    IN  IF n = 0 THEN [particles |-> particles, rng |-> rng]
        ELSE AtX(np_uniform(rng, 0, width * 1000))

RECURSIVE predict(_, _, _, _, _, _, _, _, _)
predict(particles, rng, width, height, delta_x, delta_y, delta_theta, noise, i) ==
    LET Moved(nx, ny, nt) ==
            predict([particles EXCEPT
                       ![i].x = Clip(@ + delta_x + nx, 0, (width - 1) * 1000),
                       ![i].y = Clip(@ + delta_y + ny, 0, (height - 1) * 1000),
                       ![i].theta = (@ + delta_theta + nt.val) % TwoPi],
                    nt.rng, width, height, delta_x, delta_y, delta_theta,
                    noise, i + 1)
        NoisyY(nx, ny) == Moved(nx, ny.val, np_normal(ny.rng, noise \div 10))
        NoisyX(nx) == NoisyY(nx.val, np_normal(nx.rng, noise))
    IN  IF i > Len(particles) THEN [particles |-> particles, rng |-> rng]
        ELSE NoisyX(np_normal(rng, noise))

\* ParticleFilter.update: every particle gets the same likelihood, so the
\* normalised weights are equal; with no measurement the weights are kept
update_weights(particles, measurement) ==
    IF Len(measurement) = 0 THEN particles
    ELSE [i \in 1..Len(particles) |->
            [particles[i] EXCEPT !.weight = UnitWeight \div Len(particles)]]

\* the inner loop of resample: advance i while u > c
RECURSIVE resample_seek(_, _, _, _)
resample_seek(particles, u, c, i) ==
    IF u > c
    THEN LET j == IF i + 1 >= Len(particles) THEN 0 ELSE i + 1
         IN  resample_seek(particles, u, c + particles[j + 1].weight, j)
    ELSE [c |-> c, i |-> i]

RECURSIVE resample_loop(_, _, _, _, _, _, _)
resample_loop(particles, rng, r, c, i, m, new_particles) ==
    LET Copied(at, nx, ny, nt) ==
            resample_loop(particles, nt.rng, r, at.c, at.i, m + 1,
                Append(new_particles,
                       [x |-> particles[at.i + 1].x + nx,
                        y |-> particles[at.i + 1].y + ny,
                        theta |-> particles[at.i + 1].theta + nt.val,
                        weight |-> UnitWeight \div Len(particles)]))
        NoisyY(at, nx, ny) == Copied(at, nx, ny.val, np_normal(ny.rng, 10))
        NoisyX(at, nx) == NoisyY(at, nx.val, np_normal(nx.rng, 100))
    IN  IF m >= Len(particles) THEN [particles |-> new_particles, rng |-> rng]
        ELSE NoisyX(resample_seek(particles,
                                  r + m * (UnitWeight \div Len(particles)), c, i),
                    np_normal(rng, 100))

resample(particles, rng) ==
    LET From(r) ==
            resample_loop(particles, r.rng, r.val, particles[1].weight, 0, 0, << >>)
    IN  From(np_uniform(rng, 0, UnitWeight \div Len(particles)))

RECURSIVE WeightedSum(_, _, _)
WeightedSum(particles, Field(_), i) ==
    IF i > Len(particles) THEN 0
    ELSE Field(particles[i]) * (particles[i].weight \div 1000)
           + WeightedSum(particles, Field, i + 1)

get_estimated_pose(particles) ==
    LET X(p) == p.x
        Y(p) == p.y
        T(p) == p.theta
    IN  <<WeightedSum(particles, X, 1) \div 1000,
          WeightedSum(particles, Y, 1) \div 1000,
          WeightedSum(particles, T, 1) \div 1000>>

SLAM(width, height, rng) ==
    LET Made(made) ==
            [slam |-> [particles |-> made.particles,
                       estimated_pose |-> <<(width * 1000) \div 2,
                                            (height * 1000) \div 2, 0>>],
             rng |-> made.rng]
    IN  Made(init_particles(rng, width, height, NumParticles, << >>))

\* SLAM.update(delta_x, delta_y, delta_theta, sensor_data)
slam_update(slam, rng, width, height, delta_x, delta_y, delta_theta, sensor_data) ==
    LET Resampled(resampled) ==
            [slam |-> [particles |-> resampled.particles,
                       estimated_pose |-> get_estimated_pose(resampled.particles)],
             rng |-> resampled.rng]
        Predicted(predicted) ==
            Resampled(resample(update_weights(predicted.particles, sensor_data),
                               predicted.rng))
    IN  Predicted(predict(slam.particles, rng, width, height,
                          delta_x, delta_y, delta_theta, 100, 1))

(***************************************************************************)
(* simulator.py: SimulationConfig and SimulationController                 *)
(***************************************************************************)
SimulationConfig(room_type, cleaning_mode, max_steps, enable_slam, random_seed) ==
    [room_type |-> room_type, cleaning_mode |-> cleaning_mode,
     max_steps |-> max_steps, enable_slam |-> enable_slam,
     random_seed |-> random_seed]

DefaultMaxSteps == 10000

DefaultConfig ==
    SimulationConfig("furnished", "auto", DefaultMaxSteps, TRUE, NoSeed)

StartOffsets ==
    << <<1, 0>>, <<-1, 0>>, <<0, 1>>, <<0, -1>>,
       <<1, 1>>, <<-1, -1>>, <<1, -1>>, <<-1, 1>> >>

\* _find_start_position taking the first cell around the dock whatever it holds
_find_start_position_unchecked(e, rng) ==
    IF e.dock_position # NoPosition
    THEN [pos |-> <<e.dock_position[1] + StartOffsets[1][1],
                    e.dock_position[2] + StartOffsets[1][2]>>,
          rng |-> rng]
    ELSE [pos |-> <<e.width \div 2, e.height \div 2>>, rng |-> rng]

_find_start_position(e, rng) ==
    LET Ok(d) == env_is_valid_position(e, e.dock_position[1] + d[1],
                                       e.dock_position[2] + d[2])
        Drawn(free_cells, r) == [pos |-> free_cells[r.val + 1], rng |-> r.rng]
        Anywhere(free_cells) ==
            IF Len(free_cells) > 0
            THEN Drawn(free_cells, np_randint(rng, 0, Len(free_cells)))
            ELSE [pos |-> <<e.width \div 2, e.height \div 2>>, rng |-> rng]
        Near(around) ==
            IF Len(around) > 0
            THEN [pos |-> <<e.dock_position[1] + around[1][1],
                            e.dock_position[2] + around[1][2]>>,
                  rng |-> rng]
            ELSE Anywhere(argwhere(e.env, e.width, e.height, FREE))
    IN  Near(IF e.dock_position = NoPosition THEN << >>
             ELSE SelectSeq(StartOffsets, Ok))

MaxStuckAttempts == 10

\* SimulationController(config), run on the generators np and py (numpy.random
\* and random): [ok |-> FALSE] stands for the exception it raises; the
\* generators are left as the constructor leaves them either way
SimulationController(config, np, py) ==
    LET Docked(e, robot) ==
            IF e.dock_position # NoPosition
            THEN set_dock_position(robot, Position(e.dock_position[1],
                                                   e.dock_position[2]))
            ELSE robot
        Mapped(e, start, slam) ==
            [ok |-> TRUE,
             sim |-> [config |-> config,
                      environment |-> e,
                      robot |-> Docked(e, RobotVacuum(Position(start[1], start[2]),
                                                      BatteryCapacity)),
                      slam |-> slam.slam,
                      current_path |-> << >>,
                      path_index |-> 0,
                      steps |-> 0,
                      stuck_counter |-> 0],
             np |-> slam.rng,
             \* RandomCoveragePlanner(env, seed=config.random_seed)
             py |-> IF config.random_seed # NoSeed
                    THEN rng_seed(config.random_seed) ELSE py]
        Started(e, start) ==
            Mapped(e, start.pos,
                   IF config.enable_slam THEN SLAM(e.width, e.height, start.rng)
                   ELSE [slam |-> NoSlam, rng |-> start.rng])
        Made(made) ==
            IF ~made.ok THEN [ok |-> FALSE, np |-> made.rng, py |-> py]
            ELSE Started(made.environment,
                         _find_start_position(made.environment, made.rng))
    IN  Made(create_environment(config.room_type,
                                IF config.random_seed # NoSeed
                                THEN rng_seed(config.random_seed) ELSE np))

\* _generate_coverage_path: the path and the random module's state after it
_generate_coverage_path(c, py) ==
    LET env == c.environment.env
        width == c.environment.width
        height == c.environment.height
        start == to_grid(c.robot.position)
        mode == c.robot.mode
        Random(random) ==
            [path |-> remove_redundant_moves(random.path), py |-> random.rng]
    IN  IF mode = "random"
        THEN Random(generate_random_path(env, width, height, py, start))
        ELSE [path |-> remove_redundant_moves(
                  CASE mode = "spiral" ->
                         generate_spiral_path(env, width, height, start)
                    [] mode = "zigzag" ->
                         generate_zigzag_path(env, width, height, start, TRUE)
                    [] mode = "wall_follow" ->
                         follow_wall(env, width, height, start)
                    \* AUTO - use zigzag as default
                    [] OTHER ->
                         generate_zigzag_path(env, width, height, start, TRUE)),
              py |-> py]

_navigate_to_position(c, target) ==
    find_path(c.environment.env, c.environment.width, c.environment.height,
              to_grid(c.robot.position), target, TRUE)

\* _get_sensor_points: the obstacle cells of the 5x5 window around the agent
_get_sensor_points(c) ==
    LET g == to_grid(c.robot.position)
        e == c.environment
        window == [i \in 1..25 |-> <<g[1] + ((i - 1) \div 5) - 2,
                                     g[2] + ((i - 1) % 5) - 2>>]
        Seen(p) == /\ InGrid(p[1], p[2], e.width, e.height)
                   /\ e.env[p[2]][p[1]] = OBSTACLE
    IN  SelectSeq(window, Seen)

\* a path the controller can follow: `if self.current_path` is false for None
\* and for the empty list
HasPath(c) == c.current_path # NoPath /\ Len(c.current_path) > 0

PathLeft(c) == HasPath(c) /\ c.path_index < Len(c.current_path)

\* the part of a tick shared by the two path-following states: the move to
\* next_pos and, when it succeeds, the cursor, the cleaning and the SLAM update
follow_step(c, np, next_pos, reset_stuck) ==
    LET dx == (next_pos[1] - to_grid(c.robot.position)[1]) * 1000
        dy == (next_pos[2] - to_grid(c.robot.position)[2]) * 1000
        Updated(c2, upd) == [sim |-> [c2 EXCEPT !.slam = upd.slam], np |-> upd.rng]
        Cleaned(c2) ==
            IF c2.slam = NoSlam THEN [sim |-> c2, np |-> np]
            ELSE Updated(c2, slam_update(c2.slam, np, c2.environment.width,
                                         c2.environment.height, dx, dy, 0,
                                         _get_sensor_points(c2)))
        Moved(moved) ==
            IF ~moved.ok THEN [sim |-> [c EXCEPT !.robot = moved.robot], np |-> np]
            ELSE Cleaned([c EXCEPT
                            !.robot = moved.robot,
                            !.path_index = @ + 1,
                            !.stuck_counter = IF reset_stuck THEN 0 ELSE @,
                            !.environment = clean_cell(@, next_pos[1], next_pos[2])])
    IN  Moved(move(c.robot, dx, dy))

\* what step() hands back: the controller after the tick, the value returned
\* and the two generators after it
StepResult(sim, ret, np, py) == [sim |-> sim, ret |-> ret, np |-> np, py |-> py]

\* the tick of a charging agent
step_charging(c, np, py) ==
    LET Charged(charged) ==
            IF charged.full
            \* fully charged, resume cleaning
            THEN StepResult([c EXCEPT !.robot = [charged.robot EXCEPT
                                                   !.state = "cleaning"],
                                      !.current_path = << >>,
                                      !.path_index = 0],
                            TRUE, np, py)
            ELSE StepResult([c EXCEPT !.robot = charged.robot], TRUE, np, py)
    IN  Charged(charge(c.robot, ChargeRate))

\* the tick of an agent on its way to the dock
step_returning(c, np, py) ==
    LET Followed(f) == StepResult(f.sim, TRUE, f.np, py)
    IN  IF PathLeft(c)
        THEN Followed(follow_step(c, np, c.current_path[c.path_index + 1], FALSE))
        \* reached dock
        ELSE StepResult([c EXCEPT !.robot.state = "charging"], TRUE, np, py)

\* the tick of a cleaning agent that keeps the stuck counter when it drops
\* the path
step_cleaning_keeps_counter(c, np, py) ==
    LET Followed(f, py1) == StepResult(f.sim, TRUE, f.np, py1)
        Skipped(skipped, py1) ==
            StepResult(IF skipped.stuck_counter >= MaxStuckAttempts
                       THEN [skipped EXCEPT !.robot.stats.stuck_count = @ + 1,
                                            !.current_path = << >>]
                       ELSE skipped,
                       TRUE, np, py1)
        Follow(planned, py1) ==
            IF ~(planned.path_index < Len(planned.current_path))
            THEN StepResult(planned, TRUE, np, py1)
            ELSE IF env_is_valid_position(planned.environment,
                        planned.current_path[planned.path_index + 1][1],
                        planned.current_path[planned.path_index + 1][2])
            THEN Followed(follow_step(planned, np,
                              planned.current_path[planned.path_index + 1], TRUE),
                          py1)
            \* invalid position, skip to next
            ELSE Skipped([planned EXCEPT !.path_index = @ + 1,
                                         !.stuck_counter = @ + 1], py1)
        Planned(gen) ==
            IF Len(gen.path) = 0
            THEN StepResult([c EXCEPT !.current_path = gen.path, !.path_index = 0],
                            FALSE, np, gen.py)
            ELSE Follow([c EXCEPT !.current_path = gen.path, !.path_index = 0],
                        gen.py)
    IN  IF ~PathLeft(c) THEN Planned(_generate_coverage_path(c, py))
        ELSE Follow(c, py)

\* the tick of a cleaning agent
step_cleaning(c, np, py) ==
    LET Followed(f, py1) == StepResult(f.sim, TRUE, f.np, py1)
        Skipped(skipped, py1) ==
            StepResult(IF skipped.stuck_counter >= MaxStuckAttempts
                       THEN [skipped EXCEPT !.robot.stats.stuck_count = @ + 1,
                                            !.current_path = << >>,
                                            !.stuck_counter = 0]
                       ELSE skipped,
                       TRUE, np, py1)
        Follow(planned, py1) ==
            IF ~(planned.path_index < Len(planned.current_path))
            THEN StepResult(planned, TRUE, np, py1)
            ELSE IF env_is_valid_position(planned.environment,
                        planned.current_path[planned.path_index + 1][1],
                        planned.current_path[planned.path_index + 1][2])
            THEN Followed(follow_step(planned, np,
                              planned.current_path[planned.path_index + 1], TRUE),
                          py1)
            \* invalid position, skip to next
            ELSE Skipped([planned EXCEPT !.path_index = @ + 1,
                                         !.stuck_counter = @ + 1], py1)
        Planned(gen) ==
            IF Len(gen.path) = 0
            THEN StepResult([c EXCEPT !.current_path = gen.path, !.path_index = 0],
                            FALSE, np, gen.py)
            ELSE Follow([c EXCEPT !.current_path = gen.path, !.path_index = 0],
                        gen.py)
    IN  IF ~PathLeft(c) THEN Planned(_generate_coverage_path(c, py))
        ELSE Follow(c, py)

step(c0, np, py) ==
    LET Handle(c) ==
            IF c.robot.state = "charging" THEN step_charging(c, np, py)
            ELSE IF c.robot.state = "returning_to_dock" THEN step_returning(c, np, py)
            ELSE IF c.robot.state = "cleaning" THEN step_cleaning(c, np, py)
            ELSE IF c.robot.state = "idle"
            THEN StepResult([c EXCEPT !.robot.state = "cleaning"], TRUE, np, py)
            \* check if max steps reached
            ELSE IF c.steps >= c.config.max_steps
            THEN StepResult(c, FALSE, np, py)
            ELSE StepResult(c, TRUE, np, py)
        \* check battery and return to dock if needed
        Battery(sensed) ==
            IF should_return_to_dock(sensed.robot)
               /\ sensed.robot.state # "returning_to_dock"
            THEN IF sensed.robot.dock_position # NoPosition
                 THEN [sensed EXCEPT
                         !.robot.state = "returning_to_dock",
                         !.current_path = _navigate_to_position(sensed,
                                             to_grid(sensed.robot.dock_position)),
                         !.path_index = 0]
                 ELSE [sensed EXCEPT !.robot.state = "returning_to_dock"]
            ELSE sensed
        Sensed(sensed) ==
            IF sensed.robot.sensor_data.cliff_detected
            THEN StepResult([sensed EXCEPT !.robot.state = "error",
                                           !.robot.stats.errors_encountered = @ + 1],
                            FALSE, np, py)
            ELSE Handle(Battery(sensed))
    IN  Sensed([c0 EXCEPT
                  !.steps = IF @ < TickCap THEN @ + 1 ELSE @,
                  !.environment = environment_step(@),
                  !.robot = update_sensors(@, c0.environment.env,
                                           c0.environment.width,
                                           c0.environment.height)])

(***************************************************************************)
(* The state: the process-wide controller of graphql/server.py, a second   *)
(* controller of the same process, the two process-wide random generators, *)
(* what the last call returned, the number of mutations issued besides     *)
(* step_simulation, and the position of run().                             *)
(***************************************************************************)
VARIABLES _simulation, replica, np_random, py_random, last_result, commands, pc

\* the object a client of one class holds (an Environment, a RobotVacuum, a
\* planner with its query, an OccupancyGrid), and the calls made on it
VARIABLES subject, calls

server_vars == <<_simulation, replica, np_random, py_random, last_result, commands, pc>>

vars == <<_simulation, replica, np_random, py_random, last_result, commands, pc,
          subject, calls>>

\* no such object
NoSubject == subject = None /\ calls = << >>

NoSimulation == [steps |-> -1]      \* _simulation = None
NoConfig == [room_type |-> None]    \* a call that takes no config

\* what a resolver hands back (OperationResult, StepResult), with the call
OperationResult(op, mode, config, success, should_continue) ==
    [op |-> op, mode |-> mode, config |-> config, success |-> success,
     should_continue |-> should_continue]

NoResult == OperationResult(None, None, NoConfig, TRUE, TRUE)

\* the states numpy.random and random can be in when nothing has seeded them
UnseededStates == {rng_seed(0)}

\* the seeds a config carries
Seeds == {0, 1}

(***************************************************************************)
(* graphql/server.py: the mutations                                        *)
(***************************************************************************)
\* _get_simulation(): the controller, built with the default config if None
_get_simulation(sim, np, py) ==
    IF sim = NoSimulation
    THEN SimulationController(DefaultConfig, np, py)
    ELSE [ok |-> TRUE, sim |-> sim, np |-> np, py |-> py]

\* the inputs a client sends
ApiMaxSteps == 40
ModeInputs == {None, "spiral", "wall_follow", "random", "turbo"}
ConfigInputs ==
    {SimulationConfig(r, "zigzag", ApiMaxSteps, FALSE, s) :
        r \in {"empty", "stairs_test"}, s \in Seeds}
      \cup {SimulationConfig("furnished", "auto", ApiMaxSteps, TRUE, 0),
            SimulationConfig("empty", "turbo", ApiMaxSteps, FALSE, 0),
            SimulationConfig("garden", "auto", ApiMaxSteps, FALSE, 0)}

StartCleaning(mode) ==
    LET With(got) ==
            /\ np_random' = got.np
            /\ py_random' = got.py
            /\ IF mode # None /\ mode \notin CleaningModes
               \* PyCleaningMode(mode) raises ValueError
               THEN /\ _simulation' = got.sim
                    /\ last_result' = OperationResult("start_cleaning", mode,
                                                      NoConfig, FALSE, FALSE)
               ELSE /\ _simulation' =
                         [got.sim EXCEPT
                            !.robot.mode = IF mode # None THEN mode ELSE @,
                            !.robot.state = "cleaning"]
                    /\ last_result' = OperationResult("start_cleaning", mode,
                                                      NoConfig, TRUE, FALSE)
    IN  /\ commands < MaxCommands
        /\ With(_get_simulation(_simulation, np_random, py_random))
        /\ commands' = commands + 1
        /\ UNCHANGED <<subject, calls, replica, pc>>

StopCleaning ==
    LET With(got) ==
            /\ _simulation' = [got.sim EXCEPT !.robot.state = "idle"]
            /\ np_random' = got.np
            /\ py_random' = got.py
    IN  /\ commands < MaxCommands
        /\ With(_get_simulation(_simulation, np_random, py_random))
        /\ last_result' = OperationResult("stop_cleaning", None, NoConfig,
                                          TRUE, FALSE)
        /\ commands' = commands + 1
        /\ UNCHANGED <<subject, calls, replica, pc>>

ReturnToDock ==
    LET With(got) ==
            /\ _simulation' = [got.sim EXCEPT !.robot.state = "returning_to_dock"]
            /\ np_random' = got.np
            /\ py_random' = got.py
    IN  /\ commands < MaxCommands
        /\ With(_get_simulation(_simulation, np_random, py_random))
        /\ last_result' = OperationResult("return_to_dock", None, NoConfig,
                                          TRUE, FALSE)
        /\ commands' = commands + 1
        /\ UNCHANGED <<subject, calls, replica, pc>>

InitSimulation(config) ==
    LET Built(built) ==
            \* an exception leaves the global as it was
            /\ _simulation' = IF built.ok THEN built.sim ELSE _simulation
            /\ np_random' = built.np
            /\ py_random' = built.py
            /\ last_result' = OperationResult("init_simulation", None, config,
                                              built.ok, FALSE)
    IN  /\ commands < MaxCommands
        /\ Built(SimulationController(config, np_random, py_random))
        /\ commands' = commands + 1
        /\ UNCHANGED <<subject, calls, replica, pc>>

\* step_simulation, for a client that stops after max_ticks ticks of a controller
step_simulation(max_ticks) ==
    LET Stepped(stepped) ==
            /\ _simulation' = stepped.sim
            /\ np_random' = stepped.np
            /\ py_random' = stepped.py
            /\ last_result' = OperationResult("step_simulation", None, NoConfig,
                                              TRUE, stepped.ret)
        With(got) ==
            /\ got.sim.steps < max_ticks
            /\ Stepped(step(got.sim, got.np, got.py))
    IN  /\ With(_get_simulation(_simulation, np_random, py_random))
        /\ UNCHANGED <<subject, calls, replica, commands, pc>>

StepSimulation == step_simulation(MaxApiTicks)

ResetSimulation ==
    /\ commands < MaxCommands
    /\ _simulation' = NoSimulation
    /\ last_result' = OperationResult("reset_simulation", None, NoConfig, TRUE, FALSE)
    /\ commands' = commands + 1
    /\ UNCHANGED <<subject, calls, replica, np_random, py_random, pc>>

Init ==
    /\ _simulation = NoSimulation
    /\ replica = NoSimulation
    /\ np_random \in UnseededStates
    /\ py_random \in UnseededStates
    /\ last_result = NoResult
    /\ commands = 0
    /\ pc = "api"
    /\ NoSubject

Next ==
    \/ \E mode \in ModeInputs : StartCleaning(mode)
    \/ StopCleaning
    \/ ReturnToDock
    \/ \E config \in ConfigInputs : InitSimulation(config)
    \/ StepSimulation
    \/ ResetSimulation

Spec == Init /\ [][Next]_vars

(***************************************************************************)
(* simulator.py: run().  A controller is built from a config, run() puts   *)
(* the agent in the cleaning state and calls step() until it returns       *)
(* False.  The loop never waits: a step that is due is taken.              *)
(***************************************************************************)
RunMaxSteps == 30
RunConfigs ==
    {SimulationConfig(r, m, RunMaxSteps, FALSE, s) :
        r \in {"empty", "furnished", "stairs_test"},
        m \in {"auto", "zigzag", "spiral"},
        s \in Seeds}

RunInit ==
    /\ \E config \in RunConfigs, np \in UnseededStates, py \in UnseededStates :
          LET Built(built) ==
                  /\ _simulation = built.sim
                  /\ np_random = built.np
                  /\ py_random = built.py
          IN  Built(SimulationController(config, np, py))
    /\ replica = NoSimulation
    /\ last_result = NoResult
    /\ commands = 0
    /\ pc = "start"
    /\ NoSubject

\* self.robot.state = RobotState.CLEANING
RunStart ==
    /\ pc = "start"
    /\ _simulation' = [_simulation EXCEPT !.robot.state = "cleaning"]
    /\ pc' = "loop"
    /\ UNCHANGED <<subject, calls, replica, np_random, py_random, last_result, commands>>

\* while self.step(): pass
RunStep ==
    LET Stepped(stepped) ==
            /\ _simulation' = stepped.sim
            /\ np_random' = stepped.np
            /\ py_random' = stepped.py
            /\ last_result' = OperationResult("step", None, NoConfig, TRUE,
                                              stepped.ret)
            /\ pc' = IF stepped.ret THEN "loop" ELSE "done"
    IN  /\ pc = "loop"
        /\ Stepped(step(_simulation, np_random, py_random))
        /\ UNCHANGED <<subject, calls, replica, commands>>

RunNext == RunStart \/ RunStep

\* run() is one thread of control: it starts, and while the last tick asked
\* to continue it takes another.  The loop's weak fairness is written with
\* its enabling condition, pc = "loop", spelled out.
RunFairness ==
    /\ WF_vars(RunStart)
    /\ ([]<>(pc # "loop") \/ []<><<RunStep>>_vars)

RunSpec == RunInit /\ [][RunNext]_vars /\ RunFairness

(***************************************************************************)
(* A client that initialises a simulation in the empty room, steps it, and *)
(* at some tick sends the agent home.                                      *)
(***************************************************************************)
HomeConfigs == {SimulationConfig("empty", "auto", ApiMaxSteps, FALSE, s) : s \in Seeds}

HomeInit ==
    /\ \E config \in HomeConfigs, np \in UnseededStates, py \in UnseededStates :
          LET Built(built) ==
                  /\ _simulation = built.sim
                  /\ np_random = built.np
                  /\ py_random = built.py
                  /\ last_result = OperationResult("init_simulation", None,
                                                   config, built.ok, FALSE)
          IN  Built(SimulationController(config, np, py))
    /\ replica = NoSimulation
    /\ commands = 0
    /\ pc = "api"
    /\ NoSubject

HomeCommand == commands = 0 /\ ReturnToDock

HomeStep == step_simulation(MaxLongTicks)

HomeNext == HomeCommand \/ HomeStep

HomeSpec == HomeInit /\ [][HomeNext]_vars

(***************************************************************************)
(* Two controllers of one process, built from the same seeded config and   *)
(* stepped in any order: each constructor and each step runs on the        *)
(* process-wide generators.                                                *)
(***************************************************************************)
ReplayConfigs ==
    {SimulationConfig(r, "auto", ApiMaxSteps, slam, s) :
        r \in {"empty", "furnished"}, slam \in BOOLEAN, s \in Seeds}

ReplayInit ==
    /\ _simulation = NoSimulation
    /\ replica = NoSimulation
    /\ np_random \in UnseededStates
    /\ py_random \in UnseededStates
    /\ last_result = NoResult
    /\ commands = 0
    /\ pc = "api"
    /\ NoSubject

BuildFirst(config) ==
    LET Built(built) ==
            /\ _simulation' = built.sim
            /\ np_random' = built.np
            /\ py_random' = built.py
    IN  /\ _simulation = NoSimulation
        /\ Built(SimulationController(config, np_random, py_random))
        /\ UNCHANGED <<subject, calls, replica, last_result, commands, pc>>

\* the second controller gets the config of the first
BuildSecond ==
    LET Built(built) ==
            /\ replica' = built.sim
            /\ np_random' = built.np
            /\ py_random' = built.py
    IN  /\ _simulation # NoSimulation
        /\ replica = NoSimulation
        /\ Built(SimulationController(_simulation.config, np_random, py_random))
        /\ UNCHANGED <<subject, calls, _simulation, last_result, commands, pc>>

StepFirst ==
    LET Stepped(stepped) ==
            /\ _simulation' = stepped.sim
            /\ np_random' = stepped.np
            /\ py_random' = stepped.py
    IN  /\ _simulation # NoSimulation
        /\ _simulation.steps < MaxReplayTicks
        /\ Stepped(step(_simulation, np_random, py_random))
        /\ UNCHANGED <<subject, calls, replica, last_result, commands, pc>>

StepSecond ==
    LET Stepped(stepped) ==
            /\ replica' = stepped.sim
            /\ np_random' = stepped.np
            /\ py_random' = stepped.py
    IN  /\ replica # NoSimulation
        /\ replica.steps < MaxReplayTicks
        /\ Stepped(step(replica, np_random, py_random))
        /\ UNCHANGED <<subject, calls, _simulation, last_result, commands, pc>>

ReplayNext ==
    \/ \E config \in ReplayConfigs : BuildFirst(config)
    \/ BuildSecond
    \/ StepFirst
    \/ StepSecond

ReplaySpec == ReplayInit /\ [][ReplayNext]_vars

(***************************************************************************)
(* simulator.py: a client that builds a controller, puts the agent in the  *)
(* cleaning state, assigns current_path a path of its own, as the tests    *)
(* assign the fields of the objects they drive, and steps the controller.  *)
(* The coverage planners only return cells that are valid positions; a     *)
(* path with other cells has to come from the client.                      *)
(***************************************************************************)
MaxStuckTicks == 14

StuckConfigs ==
    {SimulationConfig(r, "auto", ApiMaxSteps, FALSE, s) :
        r \in {"empty", "furnished"}, s \in Seeds}

\* the cells of the top wall, then those of the left wall below it
WallCells ==
    [i \in 1..(RoomW + RoomH - 1) |->
        IF i <= RoomW THEN <<i - 1, 0>> ELSE <<0, i - RoomW>>]

\* paths with cells that are no valid positions: twelve wall cells and a
\* free cell; three wall cells, a free cell and eleven wall cells; nine wall
\* cells and two free cells; cells off the map and a free cell
StuckPaths ==
    {SubSeq(WallCells, 1, 12) \o << <<1, 1>> >>,
     SubSeq(WallCells, 1, 3) \o << <<2, 2>> >> \o SubSeq(WallCells, 1, 11),
     SubSeq(WallCells, 1, 9) \o << <<1, 2>>, <<1, 3>> >>,
     << <<-1, 0>>, <<RoomW, 1>>, <<1, 1>>, <<2, RoomH>> >>}

StuckInit ==
    /\ \E config \in StuckConfigs, path \in StuckPaths,
          np \in UnseededStates, py \in UnseededStates :
          LET Built(built) ==
                  /\ _simulation = [built.sim EXCEPT !.robot.state = "cleaning",
                                                     !.current_path = path]
                  /\ np_random = built.np
                  /\ py_random = built.py
          IN  Built(SimulationController(config, np, py))
    /\ replica = NoSimulation
    /\ last_result = NoResult
    /\ commands = 0
    /\ pc = "api"
    /\ NoSubject

StuckStep == step_simulation(MaxStuckTicks)

StuckSpec == StuckInit /\ [][StuckStep]_vars

(***************************************************************************)
(* A client of the simulation_steps subscription, with init_simulation and *)
(* reset_simulation arriving between its iterations.  The server runs on   *)
(* one event loop: a mutation, and an iteration of the subscription up to  *)
(* its yield, run without interruption.  replica is the subscription's     *)
(* local sim; pc is "api" before the subscription starts, "stream" while   *)
(* sim is the object the global _simulation names, "stale" once the global *)
(* names another object or none, "done" after the loop's break.            *)
(***************************************************************************)
MaxStreamTicks == 5   \* iterations of the subscription per controller

StreamConfigs ==
    {SimulationConfig(r, "zigzag", ApiMaxSteps, FALSE, s) :
        r \in {"empty", "furnished"}, s \in Seeds}

\* one iteration of simulation_steps: the first one binds sim
simulation_steps ==
    LET Stepped(stepped) ==
            /\ replica' = stepped.sim
            \* sim.step() changes the object both names stand for
            /\ _simulation' = IF pc = "stale" THEN _simulation ELSE stepped.sim
            /\ np_random' = stepped.np
            /\ py_random' = stepped.py
            /\ last_result' = OperationResult("simulation_steps", None, NoConfig,
                                              TRUE, stepped.ret)
            /\ pc' = IF ~stepped.ret THEN "done"
                     ELSE IF pc = "api" THEN "stream" ELSE pc
        With(got) ==
            /\ got.sim.steps < MaxStreamTicks
            /\ Stepped(step(got.sim, got.np, got.py))
    IN  /\ pc \in {"api", "stream", "stale"}
        /\ With(IF pc = "api"
                THEN _get_simulation(_simulation, np_random, py_random)
                ELSE [ok |-> TRUE, sim |-> replica, np |-> np_random,
                      py |-> py_random])
        /\ UNCHANGED <<subject, calls, commands>>

\* init_simulation while the subscription may be running: the global is
\* bound to a new object, sim is not
StreamInitSimulation(config) ==
    LET Built(built) ==
            /\ _simulation' = IF built.ok THEN built.sim ELSE _simulation
            /\ np_random' = built.np
            /\ py_random' = built.py
            /\ last_result' = OperationResult("init_simulation", None, config,
                                              built.ok, FALSE)
            /\ pc' = IF built.ok /\ pc = "stream" THEN "stale" ELSE pc
    IN  /\ commands < MaxCommands
        /\ Built(SimulationController(config, np_random, py_random))
        /\ commands' = commands + 1
        /\ UNCHANGED <<subject, calls, replica>>

\* reset_simulation while the subscription may be running
StreamResetSimulation ==
    /\ commands < MaxCommands
    /\ _simulation' = NoSimulation
    /\ last_result' = OperationResult("reset_simulation", None, NoConfig, TRUE, FALSE)
    /\ pc' = IF pc = "stream" THEN "stale" ELSE pc
    /\ commands' = commands + 1
    /\ UNCHANGED <<subject, calls, replica, np_random, py_random>>

StreamNext ==
    \/ simulation_steps
    \/ \E config \in StreamConfigs : StreamInitSimulation(config)
    \/ StreamResetSimulation

StreamSpec == Init /\ [][StreamNext]_vars

(***************************************************************************)
(* Clients of one class.  The server state stays as it is at import.       *)
(***************************************************************************)
MaxCalls == 4      \* calls a client of one class makes on its object

ServerIdle ==
    /\ _simulation = NoSimulation
    /\ replica = NoSimulation
    /\ np_random \in UnseededStates
    /\ py_random \in UnseededStates
    /\ last_result = NoResult
    /\ commands = 0
    /\ pc = "unit"

\* the call op(args) is made on the object, which becomes after, and
\* returns ret
Called(op, args, ret, after) ==
    /\ Len(calls) < MaxCalls
    /\ subject' = after
    /\ calls' = Append(calls, [op |-> op, args |-> args, ret |-> ret])
    /\ UNCHANGED server_vars

LastCall == IF Len(calls) = 0 THEN None ELSE calls[Len(calls)].op

(***************************************************************************)
(* environment.py: a client of one Environment, built on a generated room  *)
(* or on a map with no free cell, that cleans cells, steps the clock and   *)
(* resets.                                                                 *)
(***************************************************************************)
SolidMap == [y \in 0..(RoomH - 1) |-> [x \in 0..(RoomW - 1) |-> OBSTACLE]]

EnvironmentInputs ==
    {create_environment(r, rng_seed(s)).environment :
        r \in {"empty", "furnished", "stairs_test"}, s \in Seeds}
      \cup {Environment(SolidMap, RoomW, RoomH)}

\* the cells a client names: free cells, a wall, the middle, cells off the map
CellInputs == {<<1, 1>>, <<2, 1>>, <<3, 3>>, <<0, 0>>, <<-1, 2>>, <<RoomW, 0>>}

EnvInit ==
    /\ ServerIdle
    /\ subject \in EnvironmentInputs
    /\ calls = << >>

EnvCleanCell(cell) ==
    Called("clean_cell", cell, None, clean_cell(subject, cell[1], cell[2]))

EnvStep == Called("step", << >>, None, environment_step(subject))

EnvReset == Called("reset", << >>, None, reset(subject))

EnvNext ==
    \/ \E cell \in CellInputs : EnvCleanCell(cell)
    \/ EnvStep
    \/ EnvReset

EnvSpec == EnvInit /\ [][EnvNext]_vars

(***************************************************************************)
(* robot.py: a client of one RobotVacuum that moves it and charges it.     *)
(* The log starts with the constructor call.                               *)
(***************************************************************************)
\* battery capacities: the controller's, and a quarter of it
CapacityInputs == {BatteryCapacity, BatteryCapacity \div 4}

StartInputs == {Position(1, 1), Position(3, 2)}

\* moves in thousandths of a cell: one cell each way, a diagonal, part of a
\* cell, no move, and a dash of thirty cells
MoveInputs ==
    {<<1000, 0>>, <<0, -1000>>, <<3000, 4000>>, <<500, 0>>, <<0, 0>>, <<30000, 0>>}

\* charge rates: the default, one that fills any battery in one call
RateInputs == {ChargeRate, BatteryCapacity}

RobotInit ==
    /\ ServerIdle
    /\ \E position \in StartInputs, capacity \in CapacityInputs :
          /\ subject = RobotVacuum(position, capacity)
          /\ calls = <<[op |-> "__init__", args |-> <<position, capacity>>,
                        ret |-> None]>>

RobotMove(dx, dy) ==
    LET Moved(moved) == Called("move", <<dx, dy>>, moved.ok, moved.robot)
    IN  Moved(move(subject, dx, dy))

RobotCharge(charge_rate) ==
    LET Charged(charged) ==
            Called("charge", <<charge_rate>>, charged.full, charged.robot)
    IN  Charged(charge(subject, charge_rate))

RobotNext ==
    \/ \E d \in MoveInputs : RobotMove(d[1], d[2])
    \/ \E charge_rate \in RateInputs : RobotCharge(charge_rate)

RobotSpec == RobotInit /\ [][RobotNext]_vars

(***************************************************************************)
(* pathplanning.py: a client of one planner.  A planner keeps nothing      *)
(* between calls, so the client makes one call on the planner it built.    *)
(***************************************************************************)
\* PathPlanner(environment)
PathPlanner(environment, width, height) ==
    [environment |-> environment, width |-> width, height |-> height]

\* a walled room cut in two by a wall down the middle column
BarrierMap ==
    [y \in 0..(RoomH - 1) |-> [x \in 0..(RoomW - 1) |->
        IF x = RoomW \div 2 THEN OBSTACLE
        ELSE create_empty_room(RoomW, RoomH)[y][x]]]

\* a walled room crossed by a staircase of obstacles that touch at corners
StaircaseMap ==
    [y \in 0..(RoomH - 1) |-> [x \in 0..(RoomW - 1) |->
        IF x + y = RoomW - 1 THEN OBSTACLE
        ELSE create_empty_room(RoomW, RoomH)[y][x]]]

\* a walled room with one obstacle beside the middle
PillarMap ==
    [y \in 0..(RoomH - 1) |-> [x \in 0..(RoomW - 1) |->
        IF x = 2 /\ y = 3 THEN OBSTACLE
        ELSE create_empty_room(RoomW, RoomH)[y][x]]]

PlannerInputs ==
    {PathPlanner(e.env, e.width, e.height) : e \in EnvironmentInputs}
      \cup {PathPlanner(m, RoomW, RoomH) :
              m \in {create_empty_room(RoomW, RoomH), BarrierMap,
                     StaircaseMap, PillarMap}}

\* the starts a client names: free cells, a wall, a cell off the map
PlanStarts ==
    {<<1, 1>>, <<1, 2>>, <<2, 3>>, <<3, 3>>, <<5, 4>>, <<0, 0>>, <<-1, 2>>}

\* the goals a client names: every cell of the map, and one off it
PlanGoals ==
    {<<x, y>> : x \in 0..(RoomW - 1), y \in 0..(RoomH - 1)} \cup {<<RoomW, 1>>}

PlanInit ==
    /\ ServerIdle
    /\ subject \in PlannerInputs
    /\ calls = << >>

PlanFindPath(start, goal, diagonal) ==
    /\ calls = << >>
    /\ Called("find_path", <<start, goal, diagonal>>,
              find_path(subject.environment, subject.width, subject.height,
                        start, goal, diagonal),
              subject)

PlanZigzag(start, horizontal) ==
    /\ calls = << >>
    /\ Called("generate_zigzag_path", <<start, horizontal>>,
              generate_zigzag_path(subject.environment, subject.width,
                                   subject.height, start, horizontal),
              subject)

MaxPathLen == 4    \* longest path handed to CoverageOptimizer

\* paths of every length up to the bound, runs of equal cells included
PathInputs ==
    UNION {[1..n -> {<<1, 1>>, <<2, 1>>}] : n \in 0..MaxPathLen}

\* CoverageOptimizer.remove_redundant_moves is a static method: the planner
\* the client holds is left alone
PlanRemoveRedundant(path) ==
    /\ calls = << >>
    /\ Called("remove_redundant_moves", <<path>>,
              remove_redundant_moves(path), subject)

PlanNext ==
    \/ \E start \in PlanStarts, goal \in PlanGoals, diagonal \in BOOLEAN :
          PlanFindPath(start, goal, diagonal)
    \/ \E start \in PlanStarts, horizontal \in BOOLEAN :
          PlanZigzag(start, horizontal)
    \/ \E path \in PathInputs : PlanRemoveRedundant(path)

PlanSpec == PlanInit /\ [][PlanNext]_vars

(***************************************************************************)
(* Clients of two RandomCoveragePlanner objects built with one seed, and   *)
(* of a third planner built without a seed.  The random module is the      *)
(* process's: py_random.                                                   *)
(***************************************************************************)
\* RandomCoveragePlanner.__init__(environment, seed): the planner, and the
\* state the random module is left in
RandomCoveragePlanner(environment, width, height, seed, py) ==
    [planner |-> PathPlanner(environment, width, height),
     py |-> IF seed = NoSeed THEN py ELSE rng_seed(seed)]

\* a name no planner is bound to yet
NoPlanner == PathPlanner(<< >>, 0, 0)

TwinStarts == {<<1, 1>>, <<3, 3>>}

TwinInit ==
    /\ ServerIdle
    /\ \E seed \in Seeds :
          subject = [seed |-> seed, first |-> NoPlanner, second |-> NoPlanner,
                     other |-> RandomCoveragePlanner(PillarMap, RoomW, RoomH,
                                                     NoSeed, py_random).planner]
    /\ calls = << >>

TwinCalled(op, args, ret, after, py) ==
    /\ Len(calls) < MaxCalls
    /\ subject' = after
    /\ calls' = Append(calls, [op |-> op, args |-> args, ret |-> ret])
    /\ py_random' = py
    /\ UNCHANGED <<_simulation, replica, np_random, last_result, commands, pc>>

TwinConstruct(which) ==
    LET Built(built) ==
            TwinCalled("__init__", <<which, subject.seed>>, None,
                       [subject EXCEPT ![which] = built.planner], built.py)
    IN  /\ subject[which] = NoPlanner
        /\ Built(RandomCoveragePlanner(PillarMap, RoomW, RoomH, subject.seed,
                                       py_random))

TwinGenerate(which, start) ==
    LET Walked(walked) ==
            TwinCalled("generate_random_path", <<which, start>>, walked.path,
                       subject, walked.rng)
    IN  /\ subject[which] # NoPlanner
        /\ Walked(generate_random_path(subject[which].environment,
                                       subject[which].width,
                                       subject[which].height,
                                       py_random, start))

TwinNext ==
    \/ \E which \in {"first", "second"} : TwinConstruct(which)
    \/ \E which \in {"first", "second", "other"}, start \in TwinStarts :
          TwinGenerate(which, start)

TwinSpec == TwinInit /\ [][TwinNext]_vars

(***************************************************************************)
(* environment.py: a client that has a map generated, has add_dock put the *)
(* dock on it with no position given, and builds the Environment on the    *)
(* result, as create_environment does.                                     *)
(***************************************************************************)
MapInputs ==
    {room_layout(r, rng_seed(s)).env :
        r \in {"empty", "furnished", "stairs_test"}, s \in Seeds}
      \cup {SolidMap, BarrierMap, StaircaseMap, PillarMap}

\* the states np.random may be in when add_dock draws from it
DrawInputs == {rng_seed(s) : s \in 0..23}

DockInit ==
    /\ ServerIdle
    /\ \E m \in MapInputs :
          subject = [env |-> m, width |-> RoomW, height |-> RoomH]
    /\ calls = << >>

DockAdd(rng) ==
    /\ calls = << >>
    /\ Called("add_dock", <<rng>>, None,
              Environment(add_dock(subject.env, rng, subject.width,
                                   subject.height).env,
                          subject.width, subject.height))

DockNext == \E rng \in DrawInputs : DockAdd(rng)

DockSpec == DockInit /\ [][DockNext]_vars

(***************************************************************************)
(* slam.py: a client of one OccupancyGrid that updates cells and feeds it  *)
(* scans.                                                                  *)
(***************************************************************************)
\* update_cell arguments: a cell of the grid seen occupied and seen free,
\* and cells off the grid
UpdateInputs ==
    {<<2, 2, TRUE>>, <<2, 2, FALSE>>, <<-1, 3, TRUE>>, <<RoomW, 0, FALSE>>}

\* update_from_scan arguments: the same point seen three times along a row,
\* points in several directions with one beyond the grid, and no point
ScanInputs ==
    {<<1, 1, << <<4, 1>>, <<4, 1>>, <<4, 1>> >> >>,
     <<3, 3, << <<5, 5>>, <<1, 4>>, <<3, RoomH + 2>> >> >>,
     <<2, 3, << >> >>}

GridInit ==
    /\ ServerIdle
    /\ subject = OccupancyGrid(RoomW, RoomH)
    /\ calls = << >>

GridUpdateCell(x, y, is_occupied) ==
    Called("update_cell", <<x, y, is_occupied>>, None,
           update_cell(subject, x, y, is_occupied))

GridUpdateFromScan(robot_x, robot_y, scan_points) ==
    Called("update_from_scan", <<robot_x, robot_y, scan_points>>, None,
           update_from_scan(subject, robot_x, robot_y, scan_points))

GridNext ==
    \/ \E u \in UpdateInputs : GridUpdateCell(u[1], u[2], u[3])
    \/ \E s \in ScanInputs : GridUpdateFromScan(s[1], s[2], s[3])

GridSpec == GridInit /\ [][GridNext]_vars

(***************************************************************************)
(* Properties.                                                             *)
(***************************************************************************)
\* the transition is a tick of the controller the server already holds
Ticked ==
    /\ _simulation # NoSimulation
    /\ last_result'.op = "step_simulation"
    /\ _simulation'.steps = _simulation.steps + 1

\* a cell cardinally adjacent to the agent is a cliff in the layout
CliffAdjacent(c) ==
    \E d \in {<<0, -1>>, <<0, 1>>, <<-1, 0>>, <<1, 0>>} :
        /\ InGrid(to_grid(c.robot.position)[1] + d[1],
                  to_grid(c.robot.position)[2] + d[2],
                  c.environment.width, c.environment.height)
        /\ c.environment.env[to_grid(c.robot.position)[2] + d[2]]
                            [to_grid(c.robot.position)[1] + d[1]] = CLIFF

\* C1: in every agent state, a step after which the tick count has reached
\* max_steps returns "do not continue"; so run() takes at most max_steps ticks.
C1_MaxStepsHonoured ==
    last_result.op = "step" =>
        /\ (_simulation.steps >= _simulation.config.max_steps
              => ~last_result.should_continue)
        /\ _simulation.steps <= _simulation.config.max_steps

\* C2: with no command and no cliff in the room, an agent that has turned to
\* the dock eventually charges to capacity and is back in the cleaning state
\* with its path cleared.
C2_ReturnChargeResume ==
    (/\ _simulation.config.room_type # "stairs_test"
     /\ _simulation.robot.state = "returning_to_dock")
      ~> (/\ _simulation.robot.state = "cleaning"
          /\ _simulation.robot.battery_level = _simulation.robot.battery_capacity
          /\ _simulation.current_path = << >>)

\* C3: a tick that starts with a cliff cardinally adjacent to the agent, in
\* whatever agent state, sets the state to error, adds exactly one to
\* errors_encountered, returns "do not continue", and leaves the position,
\* the battery level, the current path and the dirt bitmap as they were.
C3_CliffStops ==
    [][(Ticked /\ CliffAdjacent(_simulation)) =>
          /\ _simulation'.robot.state = "error"
          /\ _simulation'.robot.stats.errors_encountered
               = _simulation.robot.stats.errors_encountered + 1
          /\ ~last_result'.should_continue
          /\ _simulation'.robot.position = _simulation.robot.position
          /\ _simulation'.robot.battery_level = _simulation.robot.battery_level
          /\ _simulation'.current_path = _simulation.current_path
          /\ _simulation'.path_index = _simulation.path_index
          /\ _simulation'.environment.dirt_map = _simulation.environment.dirt_map]_vars

\* a cliff stopped an agent that had been sent home after it had moved along
\* its coverage path
C3_Witness ==
    /\ _simulation # NoSimulation
    /\ last_result.op = "step_simulation"
    /\ ~last_result.should_continue
    /\ CliffAdjacent(_simulation)
    /\ _simulation.robot.state = "error"
    /\ _simulation.robot.stats.errors_encountered = 1
    /\ _simulation.path_index > 0
    /\ commands = MaxCommands

\* the tick would move the agent: an agent on its way to the dock has a
\* waypoint left, and any other is first turned to the dock by its empty
\* battery and has a waypoint on the path planned for it
MoveDue(c) ==
    IF c.robot.state = "returning_to_dock" THEN PathLeft(c)
    ELSE /\ c.robot.dock_position # NoPosition
         /\ PathLeft([c EXCEPT
                        !.current_path = _navigate_to_position(c,
                                            to_grid(c.robot.dock_position)),
                        !.path_index = 0])

\* C4: a tick of a cleaning or returning agent that attempts a move with the
\* battery at or below zero moves nothing (position, path history, total
\* distance and cleaned cells stay), puts the agent in the error state and
\* returns "do not continue".
C4_DepletedMoveStops ==
    [][(/\ Ticked
        /\ ~CliffAdjacent(_simulation)
        /\ _simulation.robot.battery_level <= 0
        /\ _simulation.robot.state \in {"cleaning", "returning_to_dock"}
        /\ MoveDue(_simulation)) =>
          /\ _simulation'.robot.position = _simulation.robot.position
          /\ _simulation'.robot.path_history = _simulation.robot.path_history
          /\ _simulation'.robot.stats.total_distance
               = _simulation.robot.stats.total_distance
          /\ _simulation'.robot.cleaned_cells = _simulation.robot.cleaned_cells
          /\ _simulation'.robot.state = "error"
          /\ ~last_result'.should_continue]_vars

\* C5: once a step has left the agent in the error state, the next step with
\* no command in between keeps the state error, returns "do not continue" and
\* leaves errors_encountered as it was.
C5_ErrorIsTerminal ==
    [][(/\ Ticked
        /\ last_result.op = "step_simulation"
        /\ _simulation.robot.state = "error") =>
          /\ _simulation'.robot.state = "error"
          /\ ~last_result'.should_continue
          /\ _simulation'.robot.stats.errors_encountered
               = _simulation.robot.stats.errors_encountered]_vars

\* C6: run() in the empty walled room in zigzag mode, with a budget that
\* covers one sweep, terminates, with at least 95 percent cleaned and the
\* agent cleaning or charging.
C6_EmptyRoomRunEnds ==
    (/\ pc = "start"
     /\ _simulation.config.room_type = "empty"
     /\ _simulation.config.cleaning_mode = "zigzag")
      ~> (/\ pc = "done"
          /\ cleaning_percentage_at_least(_simulation.environment,
                                          TargetCoveragePct)
          /\ _simulation.robot.state \in {"cleaning", "charging"})

\* what a run exposes: the layout, the statistics, the path history and the
\* SLAM pose estimate
Exposed(c) ==
    <<c.environment.env, c.robot.stats, c.robot.path_history,
      IF c.slam = NoSlam THEN NoPosition ELSE c.slam.estimated_pose>>

\* C7: two controllers built from the same config and seed expose the same
\* layout, statistics, path history and SLAM pose after the same number of
\* steps, in whatever order the two are built and stepped.
C7_DeterministicReplay ==
    (/\ _simulation # NoSimulation
     /\ replica # NoSimulation
     /\ _simulation.steps = replica.steps)
      => Exposed(_simulation) = Exposed(replica)

\* the call is an initialisation with an unknown room type or cleaning mode,
\* or a start_cleaning with an unknown mode
InvalidCall(result) ==
    \/ /\ result.op = "init_simulation"
       /\ \/ result.config.room_type \notin PREDEFINED_ROOMS
          \/ result.config.cleaning_mode \notin CleaningModes
    \/ /\ result.op = "start_cleaning"
       /\ result.mode \notin CleaningModes \cup {None}

\* C8: an initialisation with an unknown room type or an unknown cleaning
\* mode, and a start_cleaning with an unknown mode, fail and leave the
\* controller, with the agent's mode and state, as it was.
C8_InvalidInputRejected ==
    [][(commands' = commands + 1 /\ InvalidCall(last_result')) =>
          /\ ~last_result'.success
          /\ _simulation' = _simulation]_vars

\* C9: after construction and before any command the agent's mode is the
\* cleaning mode of the config.
C9_ModeFromConfig ==
    pc = "start" => _simulation.robot.mode = _simulation.config.cleaning_mode

\* C10: every cell marked clean is a free cell of the static map.
C10_CleanedCellsAreFree ==
    _simulation # NoSimulation =>
        \A cell \in _simulation.robot.cleaned_cells :
            _simulation.environment.original_env[cell[2]][cell[1]] = FREE

\* the free cells of the static map, and those of them that are not dirty
StaticFree(e) ==
    {c \in (0..(e.width - 1)) \X (0..(e.height - 1)) : e.original_env[c[2]][c[1]] = FREE}

StaticClean(e) == {c \in StaticFree(e) : ~e.dirt_map[c[2]][c[1]]}

\* C11: cleaning_percentage is 100 x (free cells of the static map that are
\* no longer dirty) / (free cells of the static map), 100 when the map has no
\* free cell, within [0, 100], and no call but reset makes it smaller.
C11_CleaningPercentage ==
    /\ [](LET pct == get_cleaning_percentage(subject)
              free == Cardinality(StaticFree(subject))
              clean == Cardinality(StaticClean(subject))
          IN  /\ pct.den > 0
              /\ IF free = 0 THEN pct.num = 100 * pct.den
                 ELSE pct.num * free = 100 * clean * pct.den
              /\ 0 <= pct.num /\ pct.num <= 100 * pct.den)
    /\ [][LastCall' # "reset" =>
            get_cleaning_percentage(subject').num * get_cleaning_percentage(subject).den
              >= get_cleaning_percentage(subject).num * get_cleaning_percentage(subject').den]_vars

\* two free cells cleaned and the clock stepped: the percentage is strictly
\* between 0 and 100
C11_Witness ==
    /\ Len(calls) = MaxCalls
    /\ LastCall = "step"
    /\ Cardinality(StaticClean(subject)) = 2
    /\ get_cleaning_percentage(subject).num > 0
    /\ get_cleaning_percentage(subject).num
         < 100 * get_cleaning_percentage(subject).den

\* C19: after any clean_cell and step calls, reset restores the initial
\* state: every free cell of the static map is dirty, no other cell is,
\* sim_time is 0 and the static map is the one given at construction.
C19_ResetRestores ==
    [][LastCall' = "reset" =>
          /\ \A x \in 0..(subject'.width - 1), y \in 0..(subject'.height - 1) :
                subject'.dirt_map[y][x] = (subject.original_env[y][x] = FREE)
          /\ subject'.sim_time = 0
          /\ subject'.env = subject.original_env
          /\ subject'.original_env = subject.original_env
          /\ subject' = Environment(subject.original_env, subject.width,
                                    subject.height)]_vars

\* a reset after a free cell was cleaned and the clock stepped
C19_Witness ==
    /\ LastCall = "reset"
    /\ \E i, j \in 1..Len(calls) :
          /\ calls[i].op = "clean_cell" /\ calls[i].args = <<1, 1>>
          /\ calls[j].op = "step"
    /\ subject.dirt_map[1][1]
    /\ subject.sim_time = 0

\* C12: after any moves and charges the battery level is at least 0 and at
\* most the battery capacity.
C12_BatteryInRange ==
    /\ 0 <= subject.battery_level
    /\ subject.battery_level <= subject.battery_capacity

\* a move that needed more than the battery held has emptied it
C12_Witness ==
    /\ LastCall = "move"
    /\ calls[Len(calls)].ret
    /\ calls[Len(calls)].args = <<30000, 0>>
    /\ subject.battery_level = 0
    /\ subject.battery_capacity = BatteryCapacity \div 4

\* the moves of the log that returned True
accepted_moves == SelectSeq(calls, LAMBDA c : c.op = "move" /\ c.ret)

\* the sum of sqrt(dx^2 + dy^2) over a sequence of moves
RECURSIVE travelled(_)
travelled(moves) ==
    IF moves = << >> THEN 0
    ELSE Distance(Head(moves).args[1], Head(moves).args[2])
           + travelled(Tail(moves))

\* the positions a sequence of moves goes through from a position, the
\* position itself first
RECURSIVE waypoints(_, _)
waypoints(position, moves) ==
    IF moves = << >> THEN <<position>>
    ELSE <<position>> \o
         waypoints(<<position[1] + Head(moves).args[1],
                     position[2] + Head(moves).args[2]>>, Tail(moves))

\* C13: after any sequence of calls total_distance is the sum of
\* sqrt(dx^2 + dy^2) over exactly the moves that returned True, and
\* path_history is the initial position followed by one position per such
\* move, in order; a move that returned False adds to neither.
C13_MoveBookkeeping ==
    /\ subject.stats.total_distance = travelled(accepted_moves)
    /\ subject.path_history = waypoints(calls[1].args[1], accepted_moves)

\* a move was accepted, and the last move, of some length, was rejected
C13_Witness ==
    /\ LastCall = "move"
    /\ ~calls[Len(calls)].ret
    /\ calls[Len(calls)].args = <<3000, 4000>>
    /\ Len(accepted_moves) > 0
    /\ subject.stats.total_distance > 0

\* C14: each charge call raises the battery by the charge rate, capped at
\* the capacity, and returns True exactly when the battery is then at
\* capacity; battery_cycles goes up by one at the call where the battery
\* reaches capacity, and not at a call made with the battery already there.
C14_ChargeCountsEpisodes ==
    [][(LastCall' = "charge" /\ Len(calls') = Len(calls) + 1) =>
          LET rate == calls'[Len(calls')].args[1]
              was_full == subject.battery_level >= subject.battery_capacity
              is_full == subject'.battery_level >= subject'.battery_capacity
          IN  /\ subject'.battery_level =
                   Min(subject.battery_capacity, subject.battery_level + rate)
              /\ calls'[Len(calls')].ret = is_full
              /\ subject'.stats.battery_cycles =
                   subject.stats.battery_cycles
                     + (IF is_full /\ ~was_full THEN 1 ELSE 0)]_vars

\* a cell the planner may route through: on the map, and free or the dock
Traversable(planner, cell) ==
    /\ InGrid(cell[1], cell[2], planner.width, planner.height)
    /\ planner.environment[cell[2]][cell[1]] \in {FREE, DOCK}

\* one step of a route: to a traversable cell beside or diagonal to the
\* cell, and diagonally only when diagonals are enabled and the two cells
\* the step passes between are traversable
AdmissibleStep(planner, from, to, diagonal) ==
    /\ Traversable(planner, to)
    /\ Max(Abs(to[1] - from[1]), Abs(to[2] - from[2])) = 1
    /\ (to[1] # from[1] /\ to[2] # from[2]) =>
          /\ diagonal
          /\ Traversable(planner, <<to[1], from[2]>>)
          /\ Traversable(planner, <<from[1], to[2]>>)

\* the cells admissible steps lead to from the cells of seen
RECURSIVE Routed(_, _, _)
Routed(planner, seen, diagonal) ==
    LET cells == {<<x, y>> : x \in 0..(planner.width - 1),
                             y \in 0..(planner.height - 1)}
        more == {to \in cells \ seen :
                    \E from \in seen : AdmissibleStep(planner, from, to, diagonal)}
    IN  IF more = {} THEN seen ELSE Routed(planner, seen \cup more, diagonal)

\* C15: find_path ends; it returns None exactly when the start or the goal
\* is not traversable or no admissible route joins them; otherwise it
\* returns a path from the start to the goal (the start alone when they are
\* the same cell) over traversable cells only, each cell one admissible
\* step from the one before.
C15_FindPathSound ==
    LastCall = "find_path" =>
        LET start == calls[1].args[1]
            goal == calls[1].args[2]
            diagonal == calls[1].args[3]
            path == calls[1].ret
            ends_ok == Traversable(subject, start) /\ Traversable(subject, goal)
        IN  /\ ends_ok =>
                 astar_run(subject.environment, subject.width, subject.height,
                           start, goal, diagonal).done
            /\ path = NoPath <=>
                 (~ends_ok \/ goal \notin Routed(subject, {start}, diagonal))
            /\ path # NoPath =>
                 /\ path[1] = start
                 /\ path[Len(path)] = goal
                 /\ start = goal => path = <<start>>
                 /\ \A i \in 1..Len(path) : Traversable(subject, path[i])
                 /\ \A i \in 1..(Len(path) - 1) :
                       AdmissibleStep(subject, path[i], path[i + 1], diagonal)

\* with diagonals enabled, no route crosses obstacles that touch at corners
C15_Witness ==
    /\ LastCall = "find_path"
    /\ subject.environment = StaircaseMap
    /\ calls[1].args = <<<<2, 3>>, <<5, 4>>, TRUE>>
    /\ calls[1].ret = NoPath

\* C17: in a walled room with no obstacle inside, the path from S to G and
\* the path from G to S have the same number of cells.
C17_SymmetricLength ==
    (/\ LastCall = "find_path"
     /\ \A x \in 0..(subject.width - 1), y \in 0..(subject.height - 1) :
           IF x \in {0, subject.width - 1} \/ y \in {0, subject.height - 1}
           THEN subject.environment[y][x] = OBSTACLE
           ELSE subject.environment[y][x] \in {FREE, DOCK}) =>
        Len(calls[1].ret) =
          Len(find_path(subject.environment, subject.width, subject.height,
                        calls[1].args[2], calls[1].args[1], calls[1].args[3]))


\* a path of several cells with a diagonal step, across the empty room
C17_Witness ==
    /\ LastCall = "find_path"
    /\ subject.environment = create_empty_room(RoomW, RoomH)
    /\ calls[1].args = <<<<1, 1>>, <<5, 4>>, TRUE>>
    /\ Len(calls[1].ret) > 2
    /\ \E i \in 1..(Len(calls[1].ret) - 1) :
          /\ calls[1].ret[i][1] # calls[1].ret[i + 1][1]
          /\ calls[1].ret[i][2] # calls[1].ret[i + 1][2]


\* C16: the zigzag path, by rows or by columns, holds every traversable
\* cell of the map exactly once and no other cell, with the rows (columns)
\* in increasing order and each row (column) crossed upwards when its
\* number is even and downwards when it is odd.
C16_ZigzagCovers ==
    LastCall = "generate_zigzag_path" =>
        LET path == calls[1].ret
            horizontal == calls[1].args[2]
            line(cell) == IF horizontal THEN cell[2] ELSE cell[1]
            along(cell) == IF horizontal THEN cell[1] ELSE cell[2]
        IN  /\ \A i \in 1..Len(path) : Traversable(subject, path[i])
            /\ \A x \in 0..(subject.width - 1), y \in 0..(subject.height - 1) :
                  Traversable(subject, <<x, y>>) =>
                     Cardinality({i \in 1..Len(path) : path[i] = <<x, y>>}) = 1
            /\ \A i \in 1..Len(path), j \in 1..Len(path) :
                  i < j =>
                     /\ line(path[i]) <= line(path[j])
                     /\ line(path[i]) = line(path[j]) =>
                           IF line(path[i]) % 2 = 0
                           THEN along(path[i]) < along(path[j])
                           ELSE along(path[i]) > along(path[j])

\* a sweep by columns of a room with furniture in it
C16_Witness ==
    /\ LastCall = "generate_zigzag_path"
    /\ ~calls[1].args[2]
    /\ \E x \in 1..(subject.width - 2), y \in 1..(subject.height - 2) :
          subject.environment[y][x] = OBSTACLE
    /\ \E i \in 1..(Len(calls[1].ret) - 1) :
          /\ calls[1].ret[i][1] = calls[1].ret[i + 1][1]
          /\ calls[1].ret[i][2] > calls[1].ret[i + 1][2]


\* the free cells of a map with an obstacle above, below, left or right
FreeByObstacle(m) ==
    {c \in (0..(m.width - 1)) \X (0..(m.height - 1)) :
        /\ m.env[c[2]][c[1]] = FREE
        /\ \E d \in {<<0, 1>>, <<1, 0>>, <<0, -1>>, <<-1, 0>>} :
              /\ InGrid(c[1] + d[1], c[2] + d[2], m.width, m.height)
              /\ m.env[c[2] + d[2]][c[1] + d[1]] = OBSTACLE}

\* C18: add_dock with no position puts the dock on a free cell beside an
\* obstacle when the map has one, on another free cell only when it has
\* none, and on the centre cell only when the map has no free cell; exactly
\* one cell of the map changes, to the dock, and the Environment built on
\* the map has that cell as dock_position.
C18_DockByObstacle ==
    [][(calls = << >> /\ LastCall' = "add_dock") =>
          LET cells == (0..(subject.width - 1)) \X (0..(subject.height - 1))
              free == {c \in cells : subject.env[c[2]][c[1]] = FREE}
              changed == {c \in cells :
                            subject'.env[c[2]][c[1]] # subject.env[c[2]][c[1]]}
              dock == subject'.dock_position
          IN  /\ changed = {dock}
              /\ subject'.env[dock[2]][dock[1]] = DOCK
              /\ IF FreeByObstacle(subject) # {} THEN dock \in FreeByObstacle(subject)
                 ELSE IF free # {} THEN dock \in free
                 ELSE dock = <<subject.width \div 2, subject.height \div 2>>]_vars


\* the cells the calls of a log addressed an update to
updated_cells(log) ==
    UNION {IF log[i].op = "update_cell"
           THEN {<<log[i].args[1], log[i].args[2]>>}
           ELSE UNION {{ray[k] : k \in 1..Len(ray)} :
                         ray \in {bresenham_line(log[i].args[1], log[i].args[2],
                                                 log[i].args[3][j][1],
                                                 log[i].args[3][j][2]) :
                                    j \in 1..Len(log[i].args[3])}}
             : i \in 1..Len(log)}

\* C20: after any update_cell and update_from_scan calls every log-odds
\* value is between -3.5 and 3.5 and the cells flagged observed are the
\* cells that received an update; an update_cell for a cell off the grid
\* changes neither the log-odds nor the flags.
C20_LogOddsBounded ==
    /\ [](\A x \in 0..(subject.width - 1), y \in 0..(subject.height - 1) :
             /\ LogOddsMin <= subject.grid[y][x]
             /\ subject.grid[y][x] <= LogOddsMax
             /\ subject.observed[y][x] <=> <<x, y>> \in updated_cells(calls))
    /\ [][(/\ LastCall' = "update_cell"
           /\ Len(calls') = Len(calls) + 1
           /\ ~InGrid(calls'[Len(calls')].args[1], calls'[Len(calls')].args[2],
                      subject.width, subject.height)) =>
             /\ subject'.grid = subject.grid
             /\ subject'.observed = subject.observed]_vars

\* a cell seen occupied six times and a cell seen free six times, both at
\* the clamp, after an update for a cell off the grid
C20_Witness ==
    /\ subject.grid[1][4] = LogOddsMax
    /\ subject.grid[1][1] = LogOddsMin
    /\ ~subject.observed[2][2]
    /\ \E i \in 1..Len(calls) : calls[i].args = <<-1, 3, TRUE>>


\* C21: a tick that starts with the agent charging and no cliff beside it
\* charges once, by the default rate, and ends with the agent charging when
\* the battery is not yet full and cleaning with an empty path when it is;
\* it plans no path to the dock.
C21_ChargingTick ==
    [][(/\ Ticked
        /\ ~CliffAdjacent(_simulation)
        /\ _simulation.robot.state = "charging") =>
          /\ _simulation'.robot.battery_level =
               Min(_simulation.robot.battery_capacity,
                   _simulation.robot.battery_level + ChargeRate)
          /\ IF _simulation'.robot.battery_level
                  >= _simulation.robot.battery_capacity
             THEN /\ _simulation'.robot.state = "cleaning"
                  /\ _simulation'.current_path = << >>
             ELSE /\ _simulation'.robot.state = "charging"
                  /\ _simulation'.current_path = _simulation.current_path]_vars


\* C22: every move that returns True leaves the battery strictly lower than
\* it was before the call, and every charge made below capacity leaves it
\* strictly higher.
C22_BatteryStrictlyChanges ==
    [][Len(calls') = Len(calls) + 1 =>
          /\ (LastCall' = "move" /\ calls'[Len(calls')].ret) =>
                subject'.battery_level < subject.battery_level
          /\ (/\ LastCall' = "charge"
              /\ subject.battery_level < subject.battery_capacity) =>
                subject'.battery_level > subject.battery_level]_vars


\* C23: a tick of a cleaning agent, with no cliff beside it and no need to
\* go to the dock, whose next path cell is no valid position adds one to the
\* path cursor and to the stuck counter and leaves the agent where it is;
\* when that brings the counter to max_stuck_attempts the path is dropped,
\* the counter is set to 0 and stuck_count grows by one; a move that
\* succeeds sets the counter to 0; and a tick that finds the path dropped
\* generates a new coverage path.
C23_StuckCounting ==
    [][(/\ Ticked
        /\ ~CliffAdjacent(_simulation)
        /\ ~should_return_to_dock(_simulation.robot)
        /\ _simulation.robot.state = "cleaning") =>
          LET c == _simulation
              after == _simulation'
          IN  IF PathLeft(c)
              THEN IF env_is_valid_position(c.environment,
                          c.current_path[c.path_index + 1][1],
                          c.current_path[c.path_index + 1][2])
                   THEN c.robot.battery_level > 0 =>
                          /\ after.stuck_counter = 0
                          /\ after.path_index = c.path_index + 1
                          /\ to_grid(after.robot.position)
                               = c.current_path[c.path_index + 1]
                   ELSE /\ after.path_index = c.path_index + 1
                        /\ after.robot.position = c.robot.position
                        /\ IF c.stuck_counter + 1 >= MaxStuckAttempts
                           THEN /\ after.current_path = << >>
                                /\ after.stuck_counter = 0
                                /\ after.robot.stats.stuck_count
                                     = c.robot.stats.stuck_count + 1
                           ELSE /\ after.current_path = c.current_path
                                /\ after.stuck_counter = c.stuck_counter + 1
                                /\ after.robot.stats.stuck_count
                                     = c.robot.stats.stuck_count
              ELSE after.current_path
                     = _generate_coverage_path(c, py_random).path]_vars

\* the path was dropped at the tenth cell in a row that was no valid
\* position, and the agent is following the coverage path generated since
C23_Witness ==
    /\ last_result.op = "step_simulation"
    /\ _simulation.robot.stats.stuck_count = 1
    /\ _simulation.stuck_counter = 0
    /\ _simulation.robot.state = "cleaning"
    /\ Len(_simulation.current_path) > 0
    /\ _simulation.path_index > 0
    /\ _simulation.path_index < MaxStuckAttempts


\* the cost of a path: 1 per cardinal step, 1.414 per diagonal step
RECURSIVE path_cost(_)
path_cost(path) ==
    IF Len(path) < 2 THEN 0
    ELSE move_cost(path[1], path[2]) + path_cost(Tail(path))

\* the least cost of an admissible route from the cells of cost 0 to every
\* traversable cell, by relaxing the costs until none gets smaller
RECURSIVE least_costs(_, _, _)
least_costs(planner, costs, diagonal) ==
    LET Least(S) == CHOOSE m \in S : \A n \in S : m <= n
        relaxed ==
            [to \in DOMAIN costs |->
                Least({costs[to]} \cup
                      {costs[from] + move_cost(from, to) :
                         from \in {c \in DOMAIN costs :
                                     AdmissibleStep(planner, c, to, diagonal)}})]
    IN  IF relaxed = costs THEN costs
        ELSE least_costs(planner, relaxed, diagonal)

\* C24: a path find_path returns costs no more than any admissible route
\* from the start to the goal, with diagonals enabled and with diagonals
\* disabled.
C24_PathCostMinimal ==
    (LastCall = "find_path" /\ calls[1].ret # NoPath) =>
        LET start == calls[1].args[1]
            cells == {c \in (0..(subject.width - 1)) \X (0..(subject.height - 1)) :
                        Traversable(subject, c)}
        IN  path_cost(calls[1].ret) =
              least_costs(subject,
                          [c \in cells |-> IF c = start THEN 0 ELSE 1000000],
                          calls[1].args[3])[calls[1].args[2]]


\* the cells of a path that differ from the cell before them, in order
collapsed(path) ==
    LET Kept(i) == i = 1 \/ path[i] # path[i - 1]
        F[i \in 0..Len(path)] ==
            IF i = 0 THEN << >>
            ELSE IF Kept(i) THEN Append(F[i - 1], path[i]) ELSE F[i - 1]
    IN  F[Len(path)]

\* C25: remove_redundant_moves returns its input with each run of equal
\* consecutive cells collapsed to one cell, for a path of any length: no two
\* adjacent cells of the result are equal, it starts with the input's first
\* cell, it is not longer than the input, and a second application changes
\* nothing.
C25_RunsCollapsed ==
    LastCall = "remove_redundant_moves" =>
        LET Holds(path, result) ==
                /\ result = collapsed(path)
                /\ \A i \in 1..(Len(result) - 1) : result[i] # result[i + 1]
                /\ (Len(path) > 0 => result[1] = path[1])
                /\ Len(result) <= Len(path)
                /\ remove_redundant_moves(result) = result
        IN  Holds(calls[1].args[1], calls[1].ret)


\* C26: two RandomCoveragePlanner objects built with the same seed on the
\* same grid return the same path from generate_random_path called with the
\* same start, in whatever order the two are built and called and whatever
\* other planner calls happen in between.
C26_SameSeedSamePath ==
    \A i, j \in 1..Len(calls) :
        (/\ calls[i].op = "generate_random_path"
         /\ calls[j].op = "generate_random_path"
         /\ calls[i].args[1] = "first"
         /\ calls[j].args[1] = "second"
         /\ calls[i].args[2] = calls[j].args[2])
            => calls[i].ret = calls[j].ret


\* C27: in every state reached from the construction of a controller by
\* steps and API commands, the agent's grid cell is inside the grid and is a
\* free cell or the dock cell of the layout: never an obstacle, never a cliff.
C27_AgentOnTraversableCell ==
    _simulation # NoSimulation =>
        Traversable(PathPlanner(_simulation.environment.env,
                                _simulation.environment.width,
                                _simulation.environment.height),
                    to_grid(_simulation.robot.position))

\* the agent has been moved by a tick onto a cell next to furniture or a wall
C27_Witness ==
    /\ _simulation # NoSimulation
    /\ last_result.op = "step_simulation"
    /\ _simulation.robot.stats.total_distance > 0
    /\ \E d \in {<<0, -1>>, <<0, 1>>, <<-1, 0>>, <<1, 0>>} :
          /\ InGrid(to_grid(_simulation.robot.position)[1] + d[1],
                    to_grid(_simulation.robot.position)[2] + d[2],
                    _simulation.environment.width,
                    _simulation.environment.height)
          /\ _simulation.environment.env
                [to_grid(_simulation.robot.position)[2] + d[2]]
                [to_grid(_simulation.robot.position)[1] + d[1]] = OBSTACLE


\* C28: whenever the agent's state is charging, the agent's grid cell is the
\* dock cell, after every sequence of steps and commands, return_to_dock
\* included.
C28_ChargingOnDock ==
    (_simulation # NoSimulation /\ _simulation.robot.state = "charging") =>
        to_grid(_simulation.robot.position) = _simulation.environment.dock_position


\* C29: the move a tick applies takes the agent to its own cell or to one of
\* the 8 cells around it: in one tick the agent travels at most one cell
\* along each axis, whichever coverage planner produced the path.
C29_OneCellPerTick ==
    [][Ticked =>
        LET Near(from, to) ==
                /\ Abs(to[1] - from[1]) <= 1
                /\ Abs(to[2] - from[2]) <= 1
        IN  Near(to_grid(_simulation.robot.position),
                 to_grid(_simulation'.robot.position))]_vars


\* C30: once init_simulation or reset_simulation has completed, the
\* controller it discarded is never stepped again: a simulation_steps
\* subscription that was running steps, at each iteration, the controller
\* that is current, so the discarded one neither advances nor consumes the
\* shared random state.
C30_DiscardedNeverStepped ==
    [][pc = "stale" => replica' = replica]_vars

=============================================================================
